---- MODULE Spec2Model ----
(***************************************************************************)
(* Conversation intake and attribution pipeline of livechat-server.        *)
(*                                                                         *)
(* Python strings are modelled as sequences of one-character strings, so   *)
(* that strip(), lower(), startswith(), endswith() and the `in` substring  *)
(* test are computed character by character, as the interpreter does.      *)
(* A character outside ASCII is one atom named by its code point           *)
(* ("U6D4B" is the character U+6D4B).                                      *)
(***************************************************************************)
EXTENDS Integers, Sequences, FiniteSets, TLC

VARIABLES
    pc,                 \* which component the run exercises, and its position
    customer_name,      \* validity classifier: ContactInfo.name
    customer_email,     \* validity classifier: ContactInfo.email
    customer_phone,     \* validity classifier: ContactInfo.phone
    referrer,           \* validity classifier / channel attributor: referrer
    verdict,            \* verdicts of the three lead-validity checks
    messages,           \* timing analyzer: the message list of one chat
    timing,             \* timing analyzer: the dict calculate_timing_metrics returns
    input_file,         \* cleaners: the input file, [status, content]
    data,               \* cleaners: the raw conversation array read from the input file
    index,              \* cleaners: number of records of data the for loop has consumed
    cleaned_chats,      \* cleaners: the list of retained records
    output_file,        \* cleaners: <<>> while not written, else <<the array written>>
    validity_calls,     \* cleaners: ids of the chats _is_valid_consultation was called on
    returned,           \* cleaners: <<>> while running, else <<the value returned>>
    simplified_file,    \* pipeline: <<>> while not written, else <<the simplified array written>>
    convert_returned,   \* pipeline: <<>> before convert_to_simplified_format returns, else <<its count>>
    completed_runs,     \* pipeline: how each earlier process_pipeline call on this input ended
    intermediate_file,  \* workflow: the intermediate cleaned file on disk
    remove_failed,      \* workflow: whether an os.remove of the intermediate file failed
    exit_status,        \* workflow: <<>> while main runs, else <<the code of sys.exit>>
    cleaned_input_file, \* analysis: the cleaned file, [status, content]
    client_instance,    \* analysis: "none" or "client"
    limit,              \* analysis: None or the number of chats to process
    service_calls,      \* analysis: what the summarization service did, per call
    chats_to_process,   \* analysis: cleaned_chats[:limit]
    chat_index,         \* analysis: number of chats the for loop has consumed
    analyzed_results,   \* analysis: the list of per-chat result records
    successful_api_calls, \* analysis: counter
    skipped_api_calls,  \* analysis: counter
    final_output_file_excel, \* analysis: <<>> while not written, else <<the rows written>>
    analysis_returned,  \* analysis: <<>> while running, else <<the list returned>>
    traffic_referrer,   \* channel attributor: the referrer argument
    traffic_start_url,  \* channel attributor: the start_url argument
    label               \* channel attributor: the label returned, <<>> before the call

validityVars == <<customer_name, customer_email, customer_phone, referrer, verdict>>

timingVars == <<messages, timing>>

cleanVars == <<input_file, data, index, cleaned_chats, output_file, validity_calls, returned>>

analysisVars ==
    <<cleaned_input_file, client_instance, limit, service_calls,
      chats_to_process, chat_index,
      analyzed_results, successful_api_calls, skipped_api_calls,
      final_output_file_excel, analysis_returned>>

convertVars == <<simplified_file, convert_returned, completed_runs>>

trafficVars == <<traffic_referrer, traffic_start_url, label>>

workflowVars == <<intermediate_file, remove_failed, exit_status>>

vars ==
    <<pc, validityVars, timingVars, cleanVars, convertVars, trafficVars, analysisVars,
      workflowVars>>

(***************************************************************************)
(* Values before a component has run                                       *)
(***************************************************************************)
\* Python's None where a number is expected
None == -1

EmptyTime == [kind |-> "empty", t |-> 0, aware |-> FALSE]
BadTime == [kind |-> "bad", t |-> 0, aware |-> FALSE]
NoTime == [kind |-> "none", t |-> 0, aware |-> FALSE]
\* a 'time' that is a JSON number, not a string (1735689600)
NumberTime == [kind |-> "number", t |-> 0, aware |-> FALSE]
Instant(ms, aw) == [kind |-> "ok", t |-> ms, aware |-> aw]

\* a JSON value that is not a string where a string is expected (the number
\* 123), and a last_pages entry that is not an object (the string 'x')
NotAString == <<"#123">>
NotAPage == <<"#x">>

\* no verdict returned yet
NoVerdict == [pipeline |-> "none", channel |-> "none", monthly |-> "none"]

\* calculate_timing_metrics not called yet
NoTiming ==
    [response_time_seconds |-> None, is_qualified |-> "pending",
     first_message_time |-> NoTime]

\* the analyzer's variables in a run that does not exercise it
IdleTiming ==
    /\ messages = <<>>
    /\ timing = NoTiming

\* the classifier's variables in a run that does not exercise it
IdleValidity ==
    /\ customer_name = <<>>
    /\ customer_email = <<>>
    /\ customer_phone = <<>>
    /\ referrer = <<>>
    /\ verdict = NoVerdict

\* an input file: status "ok" with its parsed content, "missing", or
\* "invalid_json"
File(status, content) == [status |-> status, content |-> content]

FailedFiles == {File("missing", <<>>), File("invalid_json", <<>>)}

\* the cleaners' variables in a run that does not exercise them
IdleClean ==
    /\ input_file = File("ok", <<>>)
    /\ returned = <<>>
    /\ data = <<>>
    /\ index = 0
    /\ cleaned_chats = <<>>
    /\ output_file = <<>>
    /\ validity_calls = <<>>

\* the conversion's variables before convert_to_simplified_format has run
IdleConvert ==
    /\ simplified_file = <<>>
    /\ convert_returned = <<>>
    /\ completed_runs = <<>>

\* the workflow's variables before main has created the intermediate file:
\* its name carries a fresh uuid, so no file of that name exists
IdleWorkflow ==
    /\ intermediate_file = "absent"
    /\ remove_failed = FALSE
    /\ exit_status = <<>>

\* the analysis' variables in a run that does not exercise it
IdleAnalysis ==
    /\ cleaned_input_file = File("ok", <<>>)
    /\ client_instance = "none"
    /\ limit = None
    /\ service_calls = <<>>
    /\ chats_to_process = <<>>
    /\ chat_index = 0
    /\ analyzed_results = <<>>
    /\ successful_api_calls = 0
    /\ skipped_api_calls = 0
    /\ final_output_file_excel = <<>>
    /\ analysis_returned = <<>>

\* the attributor's variables in a run that does not exercise it
IdleTraffic ==
    /\ traffic_referrer = <<>>
    /\ traffic_start_url = <<>>
    /\ label = <<>>

(***************************************************************************)
(* str methods                                                             *)
(***************************************************************************)
UpperChars == <<"A","B","C","D","E","F","G","H","I","J","K","L","M",
                "N","O","P","Q","R","S","T","U","V","W","X","Y","Z">>

LowerChars == <<"a","b","c","d","e","f","g","h","i","j","k","l","m",
                "n","o","p","q","r","s","t","u","v","w","x","y","z">>

LowerChar(c) ==
    IF \E i \in 1..26 : UpperChars[i] = c
    THEN LowerChars[CHOOSE i \in 1..26 : UpperChars[i] = c]
    ELSE c

\* str.lower()
Lower(s) == [i \in 1..Len(s) |-> LowerChar(s[i])]

IsSpace(c) == c \in {" ", "\t", "\n"}

\* str.isdigit() of one character
IsDigit(c) == c \in {"0","1","2","3","4","5","6","7","8","9"}

\* str.strip()
Strip(s) ==
    LET keep == {i \in 1..Len(s) : ~IsSpace(s[i])}
    IN  IF keep = {} THEN <<>>
        ELSE LET first == CHOOSE i \in keep : \A j \in keep : i <= j
                 last  == CHOOSE i \in keep : \A j \in keep : j <= i
             IN  SubSeq(s, first, last)

\* str.startswith(p)
StartsWith(s, p) == Len(s) >= Len(p) /\ SubSeq(s, 1, Len(p)) = p

\* str.endswith(p)
EndsWith(s, p) == Len(s) >= Len(p) /\ SubSeq(s, Len(s) - Len(p) + 1, Len(s)) = p

\* p in s
Contains(s, p) ==
    \E i \in 0..(Len(s) - Len(p)) : SubSeq(s, i + 1, i + Len(p)) = p

\* any(char.isdigit() for char in s)
HasDigit(s) == \E i \in 1..Len(s) : IsDigit(s[i])

\* ''.join(filter(str.isdigit, s))
Digits(s) == SelectSeq(s, IsDigit)

(***************************************************************************)
(* Lead validity: data_conversion_pipeline.ChatDataProcessor               *)
(***************************************************************************)
S_at_vycfz == <<"@","v","-","y","c","f","z",".","c","o","m">>
S_at_vertu_cn == <<"@","v","e","r","t","u",".","c","n">>
S_test == <<"t","e","s","t">>
S_testing == <<"t","e","s","t","i","n","g">>
S_ceshi == <<"U6D4B","U8BD5">>
S_demo == <<"d","e","m","o">>
S_at_qq == <<"@","q","q",".","c","o","m">>
S_katrina == <<"k","a","t","r","i","n","a","y","u","0","8","1","5",
               "@","g","m","a","i","l",".","c","o","m">>
S_wp_admin == <<"h","t","t","p","s",":","/","/","v","e","r","t","u",".","c","o","m",
                "/","w","p","-","a","d","m","i","n","/">>
S_http == <<"h","t","t","p">>
S_www == <<"w","w","w">>
S_NA == <<"N","/","A">>
S_Anonymous == <<"A","n","o","n","y","m","o","u","s">>
S_Guest == <<"G","u","e","s","t">>
S_niming == <<"U533F","U540D","U7528","U6237">>
S_youke == <<"U6E38","U5BA2">>

\* self.test_domains
test_domains == {S_at_vycfz, S_at_vertu_cn}

\* self.test_keywords
test_keywords == {S_test, S_testing, S_ceshi, S_demo}

\* the default names of process_monthly_chats.has_valid_contact_info
invalid_names == {<<>>, S_Anonymous, S_Guest, S_niming, S_youke}

\* ChatDataProcessor._is_test_email
_is_test_email(email) ==
    IF email = <<>> THEN FALSE
    ELSE LET e == Lower(Strip(email))
         IN  \/ e = S_katrina
             \/ \E domain \in test_domains : EndsWith(e, domain)
             \/ (EndsWith(e, S_at_qq) /\ Contains(e, S_test))

\* ChatDataProcessor._is_test_name
_is_test_name(name) ==
    IF name = <<>> THEN FALSE
    ELSE LET n == Lower(Strip(name))
         IN  \E keyword \in test_keywords : Contains(n, keyword)

\* ChatDataProcessor._is_admin_referrer
_is_admin_referrer(ref) ==
    IF ref = <<>> THEN FALSE
    ELSE StartsWith(Strip(ref), S_wp_admin)

\* PipelineValidPhone with the seven-digit minimum of the older scripts
PipelineValidPhone_MinDigits(phone_raw) ==
    IF phone_raw # <<>> /\ Strip(phone_raw) # <<>>
    THEN LET phone == Strip(phone_raw)
         IN  /\ ~StartsWith(phone, S_http)
             /\ ~StartsWith(phone, S_www)
             /\ phone # S_NA
             /\ Len(SelectSeq(phone, IsDigit)) >= 7
    ELSE FALSE

\* has_valid_phone of ChatDataProcessor._is_valid_consultation
PipelineValidPhone(phone_raw) ==
    IF phone_raw # <<>> /\ Strip(phone_raw) # <<>>
    THEN LET phone == Strip(phone_raw)
         IN  /\ ~StartsWith(phone, S_http)
             /\ ~StartsWith(phone, S_www)
             /\ phone # S_NA
             /\ HasDigit(phone)
    ELSE FALSE

\* has_valid_email of ChatDataProcessor._is_valid_consultation
PipelineValidEmail(email) ==
    /\ email # <<>>
    /\ Contains(Strip(email), <<"@">>)
    /\ ~_is_test_email(email)

\* _is_valid_consultation with the test-name exclusion left out
_is_valid_consultation_NoNameRule(name, email, phone, ref) ==
    IF _is_test_email(email) THEN FALSE
    ELSE IF _is_admin_referrer(ref) THEN FALSE
    ELSE PipelineValidEmail(email) \/ PipelineValidPhone(phone)

\* ChatDataProcessor._is_valid_consultation
_is_valid_consultation(name, email, phone, ref) ==
    IF _is_test_email(email) \/ _is_test_name(name) THEN FALSE
    ELSE IF _is_admin_referrer(ref) THEN FALSE
    ELSE PipelineValidEmail(email) \/ PipelineValidPhone(phone)

\* _is_valid_consultation fails with AttributeError: .strip() is reached on
\* an email, a name or a phone that is a number
ValidConsultationRaises(name, email, phone, ref) ==
    \/ email = NotAString
    \/ /\ ~_is_test_email(email)
       /\ \/ name = NotAString
          \/ /\ ~_is_test_name(name)
             /\ ~_is_admin_referrer(ref)
             /\ phone = NotAString

(***************************************************************************)
(* Lead validity: the has_valid_contact_info closures of the older scripts *)
(***************************************************************************)
\* is_test_email nested in has_valid_contact_info (both scripts, same text)
is_test_email(email) ==
    IF email = <<>> THEN FALSE
    ELSE LET e == Lower(Strip(email))
         IN  \/ \E domain \in test_domains : EndsWith(e, domain)
             \/ (EndsWith(e, S_at_qq) /\ Contains(e, S_test))

\* is_test_name nested in has_valid_contact_info (both scripts, same text)
is_test_name(name) ==
    IF name = <<>> THEN FALSE
    ELSE LET n == Lower(Strip(name))
         IN  \E keyword \in test_keywords : Contains(n, keyword)

\* the digit-count threshold of has_valid_phone in the older scripts
MinPhoneDigits == 7

\* ChannelHasValidContactInfo accepting any digit-bearing phone
ChannelHasValidContactInfo_AnyDigit(name, email, phone) ==
    IF is_test_email(email) \/ is_test_name(name) THEN FALSE
    ELSE LET has_valid_email == /\ email # <<>>
                                /\ Contains(Strip(email), <<"@">>)
                                /\ ~is_test_email(email)
             phone_digits == IF phone # <<>> THEN Digits(phone) ELSE <<>>
             has_valid_phone == Len(phone_digits) >= 1
         IN  has_valid_email \/ has_valid_phone

\* channel_analysis.analyze_channel_data.has_valid_contact_info
ChannelHasValidContactInfo(name, email, phone) ==
    IF is_test_email(email) \/ is_test_name(name) THEN FALSE
    ELSE LET has_valid_email == /\ email # <<>>
                                /\ Contains(Strip(email), <<"@">>)
                                /\ ~is_test_email(email)
             phone_digits == IF phone # <<>> THEN Digits(phone) ELSE <<>>
             has_valid_phone == Len(phone_digits) >= MinPhoneDigits
         IN  has_valid_email \/ has_valid_phone

\* process_monthly_chats.clean_chat_data.has_valid_contact_info
MonthlyHasValidContactInfo(name, email, phone) ==
    IF is_test_email(email) \/ is_test_name(name) THEN FALSE
    ELSE LET has_valid_name == name # <<>> /\ Strip(name) \notin invalid_names
             has_valid_email == /\ email # <<>>
                                /\ Contains(Strip(email), <<"@">>)
                                /\ ~is_test_email(email)
             phone_digits == IF phone # <<>> THEN Digits(phone) ELSE <<>>
             has_valid_phone == Len(phone_digits) >= MinPhoneDigits
         IN  has_valid_name \/ has_valid_email \/ has_valid_phone

(***************************************************************************)
(* Timing analyzer: analyze_chats.calculate_timing_metrics                 *)
(*                                                                         *)
(* Instants are counted in milliseconds. A message's 'time' is the empty   *)
(* string, a string datetime.fromisoformat rejects, or a parsed instant    *)
(* that is naive or zone-aware.                                            *)
(***************************************************************************)
\* the 30 s of `response_time_seconds <= 30`, in milliseconds
SlaThreshold == 30000

\* round(x, 2) on a value in milliseconds: to the nearest 10 ms, ties to even
Round2(ms) ==
    LET r == ms % 10
        down == ms - r
    IN  IF r < 5 THEN down
        ELSE IF r > 5 THEN down + 10
        ELSE IF (down \div 10) % 2 = 0 THEN down ELSE down + 10

ScanStart ==
    [first_customer_time |-> NoTime,
     first_agent_reply_time |-> NoTime,
     customer_message_found |-> FALSE,
     first_message_time |-> NoTime,
     stop |-> FALSE]

\* ScanStep recording every agent message after the customer's, whatever its time
ScanStep_NoTimeGuard(st, message, i) ==
    IF message.time.kind # "ok" THEN st
    ELSE
      LET msg_time == message.time
          s1 == IF i = 1 THEN [st EXCEPT !.first_message_time = msg_time] ELSE st
          s2 == IF message.sender = "Customer" /\ ~s1.customer_message_found
                THEN [s1 EXCEPT !.first_customer_time = msg_time,
                                !.customer_message_found = TRUE]
                ELSE s1
      IN  IF s2.customer_message_found /\ message.sender = "Agent"
          THEN IF msg_time.aware # s2.first_customer_time.aware
               THEN s2
               ELSE [s2 EXCEPT !.first_agent_reply_time = msg_time,
                               !.stop = TRUE]
          ELSE s2

\* one iteration of the for loop, on message number i (from 1)
ScanStep(st, message, i) ==
    IF message.time.kind # "ok" THEN st
    ELSE
      LET msg_time == message.time
          s1 == IF i = 1 THEN [st EXCEPT !.first_message_time = msg_time] ELSE st
          s2 == IF message.sender = "Customer" /\ ~s1.customer_message_found
                THEN [s1 EXCEPT !.first_customer_time = msg_time,
                                !.customer_message_found = TRUE]
                ELSE s1
      IN  IF s2.customer_message_found /\ message.sender = "Agent"
          THEN IF msg_time.aware # s2.first_customer_time.aware
               THEN s2      \* TypeError of >= on naive and aware, swallowed
               ELSE IF msg_time.t >= s2.first_customer_time.t
                    THEN [s2 EXCEPT !.first_agent_reply_time = msg_time,
                                    !.stop = TRUE]
                    ELSE s2
          ELSE s2

RECURSIVE Scan_NoBreak(_, _, _)
\* the for loop without its break: it runs to the end of the list
Scan_NoBreak(msgs, i, st) ==
    IF i > Len(msgs) THEN st
    ELSE Scan_NoBreak(msgs, i + 1, ScanStep(st, msgs[i], i))

RECURSIVE Scan(_, _, _)
\* the for loop with its break
Scan(msgs, i, st) ==
    IF i > Len(msgs) \/ st.stop THEN st
    ELSE Scan(msgs, i + 1, ScanStep(st, msgs[i], i))

\* the qualification decision on the two instants the loop found, with the
\* comparison `<= 30` replaced by `< 30`
Qualify_Strict(st) ==
    IF st.first_customer_time.kind = "ok" /\ st.first_agent_reply_time.kind = "ok"
    THEN LET time_difference == st.first_agent_reply_time.t - st.first_customer_time.t
         IN  IF time_difference >= 0
             THEN [response_time_seconds |-> Round2(time_difference),
                   is_qualified |-> IF time_difference < SlaThreshold
                                    THEN "Qualified" ELSE "Unqualified",
                   first_message_time |-> st.first_message_time]
             ELSE [response_time_seconds |-> None,
                   is_qualified |-> "AnomalousTime",
                   first_message_time |-> st.first_message_time]
    ELSE [response_time_seconds |-> None,
          is_qualified |-> "NoReply",
          first_message_time |-> st.first_message_time]

\* the qualification decision on the two instants the loop found
Qualify(st) ==
    IF st.first_customer_time.kind = "ok" /\ st.first_agent_reply_time.kind = "ok"
    THEN LET time_difference == st.first_agent_reply_time.t - st.first_customer_time.t
         IN  IF time_difference >= 0
             THEN [response_time_seconds |-> Round2(time_difference),
                   is_qualified |-> IF time_difference <= SlaThreshold
                                    THEN "Qualified" ELSE "Unqualified",
                   first_message_time |-> st.first_message_time]
             ELSE [response_time_seconds |-> None,
                   is_qualified |-> "AnomalousTime",
                   first_message_time |-> st.first_message_time]
    ELSE [response_time_seconds |-> None,
          is_qualified |-> "NoReply",
          first_message_time |-> st.first_message_time]

\* analyze_chats.calculate_timing_metrics
calculate_timing_metrics(msgs) == Qualify(Scan(msgs, 1, ScanStart))

\* the loop reaches a message whose 'time' is a number: .replace raises
\* AttributeError, which `except (ValueError, TypeError)` does not catch
TimingRaises(msgs) ==
    \E i \in 1..Len(msgs) :
        /\ msgs[i].time.kind = "number"
        /\ ~Scan(SubSeq(msgs, 1, i - 1), 1, ScanStart).stop

\* longest message list the timing runs draw
MaxMsgs == 3

TimeValues == {0, 1000, 30000, 30004, 31000}

MsgTimes ==
    {EmptyTime, BadTime, NumberTime}
        \cup {Instant(ms, FALSE) : ms \in TimeValues}
        \cup {Instant(ms, TRUE) : ms \in {0, 31000}}

Senders == {"Customer", "Agent"}

MessageInputs == [time : MsgTimes, sender : Senders]

BoundedSeq(S, n) == UNION {[1..k -> S] : k \in 0..n}

InitTiming ==
    /\ pc = "timing"
    /\ messages \in BoundedSeq(MessageInputs, MaxMsgs)
    /\ timing = NoTiming
    /\ IdleValidity
    /\ IdleClean
    /\ IdleTraffic
    /\ IdleAnalysis
    /\ IdleConvert
    /\ IdleWorkflow

\* one call of calculate_timing_metrics that returns
CalculateTimingMetrics ==
    /\ pc = "timing"
    /\ ~TimingRaises(messages)
    /\ pc' = "timed"
    /\ timing' = calculate_timing_metrics(messages)
    /\ UNCHANGED messages
    /\ UNCHANGED <<validityVars, cleanVars, trafficVars, analysisVars, convertVars, workflowVars>>

\* one call of calculate_timing_metrics that ends in an exception
CalculateTimingMetricsRaise ==
    /\ pc = "timing"
    /\ TimingRaises(messages)
    /\ pc' = "timing_raised"
    /\ UNCHANGED <<messages, timing>>
    /\ UNCHANGED <<validityVars, cleanVars, trafficVars, analysisVars, convertVars, workflowVars>>

NextTiming == CalculateTimingMetrics \/ CalculateTimingMetricsRaise

SpecTiming == InitTiming /\ [][NextTiming]_vars

(***************************************************************************)
(* Time normalizer: ChatDataProcessor._format_time and the inline copy of  *)
(* clean_chat_data.py                                                      *)
(*                                                                         *)
(* A raw created_at is the empty string, a string fromisoformat rejects    *)
(* (t tells such strings apart), or a wall-clock reading in milliseconds   *)
(* with a zone: none, 'Z', or '+08:00'.                                    *)
(***************************************************************************)
RawEmpty == [kind |-> "empty", wall |-> 0, zone |-> "naive"]
RawBad(tag) == [kind |-> "bad", wall |-> tag, zone |-> "naive"]
RawInstant(ms, z) == [kind |-> "ok", wall |-> ms, zone |-> z]
\* a created_at that is a JSON number, not a string (1735689600)
RawNumber == [kind |-> "number", wall |-> 0, zone |-> "naive"]

\* timedelta(hours=8), in milliseconds
HKT == 28800000

\* utcoffset with a naive timestamp taken as local (UTC+8) time
UtcOffset_NaiveLocal(zone) == IF zone \in {"+08:00", "naive"} THEN 28800000 ELSE 0

\* utcoffset of a parsed timestamp; a naive one is taken as UTC
UtcOffset(zone) == IF zone = "+08:00" THEN 28800000 ELSE 0

\* _format_time returning '' for a string that does not parse
_format_time_EmptyOnFailure(created_at) ==
    IF created_at.kind \in {"empty", "bad", "number"} THEN EmptyTime
    ELSE LET dt_hkt == created_at.wall - UtcOffset(created_at.zone) + HKT
         IN  Instant(dt_hkt - (dt_hkt % 1000), FALSE)

\* _format_time: '' for an empty string, the original value when parsing
\* fails (a string fromisoformat rejects, or a number, which has no
\* .replace), otherwise the HKT wall clock, to the second, without zone
_format_time(created_at) ==
    IF created_at.kind = "empty" THEN EmptyTime
    ELSE IF created_at.kind = "bad"
         THEN [kind |-> "bad", t |-> created_at.wall, aware |-> FALSE]
    ELSE IF created_at.kind = "number" THEN NumberTime
    ELSE LET dt_hkt == created_at.wall - UtcOffset(created_at.zone) + HKT
         IN  Instant(dt_hkt - (dt_hkt % 1000), FALSE)

(***************************************************************************)
(* Record extraction shared by the cleaners                                *)
(***************************************************************************)
\* a participant with no key set; object is FALSE for an array element that
\* is not a JSON object
NoUser ==
    [object |-> TRUE, type |-> "", id |-> "", name |-> <<>>, email |-> <<>>,
     phone |-> <<>>, session_fields |-> <<>>,
     visit |-> [referrer |-> <<>>, last_pages |-> <<>>]]

\* `user.get('type')` of the customer lookup fails: a participant that is
\* not an object is reached before a customer is found
LookupRaises(users) ==
    \E k \in 1..Len(users) :
        /\ ~users[k].object
        /\ \A j \in 1..(k - 1) : users[j].type # "customer"

\* next((user for user in users if user.get('type') == 'customer'), default)
FirstCustomer(users, default) ==
    IF \E k \in 1..Len(users) : users[k].type = "customer"
    THEN users[CHOOSE k \in 1..Len(users) :
                   /\ users[k].type = "customer"
                   /\ \A j \in 1..(k - 1) : users[j].type # "customer"]
    ELSE default

\* the message an event contributes when form events are not skipped
EventMessage_KeepsForms(event, customer_id) ==
    LET formatted_time == _format_time(event.created_at)
        sender == IF customer_id # "" /\ event.author_id = customer_id
                  THEN "Customer" ELSE "Agent"
    IN  IF event.type = "system_message" THEN <<>>
        ELSE IF event.text = <<>> \/ Strip(event.text) = <<>> THEN <<>>
        ELSE << [time |-> formatted_time, sender |-> sender,
                 content |-> Strip(event.text)] >>

\* the message an event contributes, if any
EventMessage(event, customer_id) ==
    LET formatted_time == _format_time(event.created_at)
        sender == IF customer_id # "" /\ event.author_id = customer_id
                  THEN "Customer" ELSE "Agent"
    IN  IF event.type \in {"system_message", "form"} THEN <<>>
        ELSE IF event.text = <<>> \/ Strip(event.text) = <<>> THEN <<>>
        ELSE << [time |-> formatted_time, sender |-> sender,
                 content |-> Strip(event.text)] >>

RECURSIVE BuildMessages(_, _)
\* the `for event in events` loop that fills messages
BuildMessages(events, customer_id) ==
    IF events = <<>> THEN <<>>
    ELSE EventMessage(Head(events), customer_id)
             \o BuildMessages(Tail(events), customer_id)

(***************************************************************************)
(* ChatDataProcessor.clean_chat_data: one iteration of `for chat in data`  *)
(***************************************************************************)
S_email == <<"e","m","a","i","l">>
S_phone == <<"p","h","o","n","e">>
S_phone_number == S_phone \o <<"_","n","u","m","b","e","r">>
S_mobile == <<"m","o","b","i","l","e">>
S_mobile_number == S_mobile \o <<"_","n","u","m","b","e","r">>
S_telephone == <<"t","e","l","e">> \o S_phone
S_Phone_Number == <<"P","h","o","n","e"," ","N","u","m","b","e","r">>

\* the keys that name a phone in session_fields
PhoneKeys == {S_phone, S_phone_number, S_mobile, S_mobile_number, S_telephone}

\* the item applied without the `not customer_email` / `not customer_phone`
\* guards: a later annotation replaces the value found so far
SessionItem_Overwrite(c, key, value) ==
    IF Contains(Lower(key), S_email) /\ value # <<>>
    THEN [c EXCEPT !.email = value]
    ELSE IF Lower(key) \in PhoneKeys /\ value # <<>>
         THEN [c EXCEPT !.phone = value]
         ELSE c

\* the item applied with the phone matched as the email is, by substring
SessionItem_PhoneSubstring(c, key, value) ==
    IF Contains(Lower(key), S_email) /\ value # <<>> /\ c.email = <<>>
    THEN [c EXCEPT !.email = value]
    ELSE IF /\ \E w \in {S_phone, S_mobile, S_telephone} : Contains(Lower(key), w)
            /\ value # <<>> /\ c.phone = <<>>
         THEN [c EXCEPT !.phone = value]
         ELSE c

\* one (key, value) item of a session field, applied to the contact so far
SessionItem(c, key, value) ==
    IF Contains(Lower(key), S_email) /\ value # <<>> /\ c.email = <<>>
    THEN [c EXCEPT !.email = value]
    ELSE IF Lower(key) \in PhoneKeys /\ value # <<>> /\ c.phone = <<>>
         THEN [c EXCEPT !.phone = value]
         ELSE c

RECURSIVE SessionFields(_, _)
\* the loop over session_fields; each field's items are taken in order
SessionFields(c, fields) ==
    IF fields = <<>> THEN c
    ELSE SessionFields(SessionItem(c, Head(fields).key, Head(fields).value),
                       Tail(fields))

\* one {name, answer} entry of a prechat form
PrechatField(c, field) ==
    IF field.name = S_Phone_Number /\ field.answer # <<>> /\ c.phone = <<>>
    THEN [c EXCEPT !.phone = field.answer]
    ELSE IF Contains(Lower(field.name), S_email) /\ field.answer # <<>> /\ c.email = <<>>
         THEN [c EXCEPT !.email = field.answer]
         ELSE c

RECURSIVE PrechatFields(_, _)
PrechatFields(c, fields) ==
    IF fields = <<>> THEN c
    ELSE PrechatFields(PrechatField(c, Head(fields)), Tail(fields))

\* one event of the form-extraction loop
FormEvent(c, event) ==
    IF event.type # "form" THEN c
    ELSE LET c1 == IF event.form_data.email # <<>> /\ c.email = <<>>
                   THEN [c EXCEPT !.email = event.form_data.email] ELSE c
             c2 == IF event.form_data.phone # <<>> /\ c1.phone = <<>>
                   THEN [c1 EXCEPT !.phone = event.form_data.phone] ELSE c1
         IN  IF event.form_type = "prechat"
             THEN PrechatFields(c2, event.fields)
             ELSE c2

RECURSIVE FormEvents(_, _)
FormEvents(c, events) ==
    IF events = <<>> THEN c
    ELSE FormEvents(FormEvent(c, Head(events)), Tail(events))

\* the record the loop body builds from one raw chat, before the validity test
PipelineExtract(chat) ==
    LET customer == FirstCustomer(chat.users, NoUser)
        c0 == [email |-> customer.email, phone |-> customer.phone]
        c1 == SessionFields(c0, customer.session_fields)
        c2 == FormEvents(c1, chat.events)
        last_pages == customer.visit.last_pages
    IN  [chat_id |-> chat.id,
         customer |-> [name |-> customer.name, email |-> c2.email, phone |-> c2.phone],
         source |-> [referrer |-> customer.visit.referrer,
                     start_url |-> IF last_pages # <<>> THEN Head(last_pages) ELSE <<>>],
         messages |-> BuildMessages(chat.events, customer.id),
         created_at |-> chat.created_at]

\* the loop body with the customer lookup of clean_chat_data.py, which
\* takes {} for a missing customer and goes on
PipelineCleanOne_NoSkip(chat) ==
    LET cleaned_chat == PipelineExtract(chat)
    IN  IF _is_valid_consultation(cleaned_chat.customer.name,
                                  cleaned_chat.customer.email,
                                  cleaned_chat.customer.phone,
                                  cleaned_chat.source.referrer)
        THEN <<cleaned_chat>>
        ELSE <<>>

\* the loop body: what one raw chat appends to cleaned_chats
PipelineCleanOne(chat) ==
    IF FirstCustomer(chat.users, NoUser) = NoUser THEN <<>>
    ELSE LET cleaned_chat == PipelineExtract(chat)
         IN  IF _is_valid_consultation(cleaned_chat.customer.name,
                                       cleaned_chat.customer.email,
                                       cleaned_chat.customer.phone,
                                       cleaned_chat.source.referrer)
             THEN <<cleaned_chat>>
             ELSE <<>>

\* the loop body fails with an exception, which clean_chat_data lets through
PipelineRaises(chat) ==
    \/ ~chat.object
    \/ LookupRaises(chat.users)
    \/ /\ FirstCustomer(chat.users, NoUser) # NoUser
       /\ LET cleaned_chat == PipelineExtract(chat)
              last_pages == FirstCustomer(chat.users, NoUser).visit.last_pages
          IN  \/ last_pages # <<>> /\ Head(last_pages) = NotAPage
              \/ ValidConsultationRaises(cleaned_chat.customer.name,
                                         cleaned_chat.customer.email,
                                         cleaned_chat.customer.phone,
                                         cleaned_chat.source.referrer)

\* the loop body: the chat the validity classifier is called on, if any
PipelineClassified(chat) ==
    IF FirstCustomer(chat.users, NoUser) = NoUser THEN <<>> ELSE <<chat.id>>

(***************************************************************************)
(* clean_chat_data.clean_chat_data: one iteration of `for chat in data`    *)
(***************************************************************************)
\* the loop body with the retention test it had before: `if messages:`
CustomerOnlyCleanOne_AnyMessage(chat) ==
    LET customer == FirstCustomer(chat.users, NoUser)
        msgs == BuildMessages(chat.thread.events, customer.id)
    IN  IF msgs # <<>>
        THEN << [chat_id |-> chat.id,
                 customer |-> [name |-> customer.name, email |-> customer.email,
                               phone |-> customer.phone],
                 messages |-> msgs] >>
        ELSE <<>>

\* the loop body: what one raw chat appends to cleaned_chats
CustomerOnlyCleanOne(chat) ==
    LET customer == FirstCustomer(chat.users, NoUser)
        msgs == BuildMessages(chat.thread.events, customer.id)
    IN  IF msgs # <<>> /\ \E k \in 1..Len(msgs) : msgs[k].sender = "Customer"
        THEN << [chat_id |-> chat.id,
                 customer |-> [name |-> customer.name, email |-> customer.email,
                               phone |-> customer.phone],
                 messages |-> msgs] >>
        ELSE <<>>

\* the loop body fails with an exception, which clean_chat_data lets through
CustomerOnlyRaises(chat) == ~chat.object \/ LookupRaises(chat.users)

(***************************************************************************)
(* Channel attributor: analyze_traffic_sources.analyze_traffic_source      *)
(***************************************************************************)
S_gad_source == <<"g","a","d","_","s","o","u","r","c","e">>
S_gclid == <<"g","c","l","i","d">>
S_gad_campaignid == <<"g","a","d","_","c","a","m","p","a","i","g","n","i","d">>
S_gbraid == <<"g","b","r","a","i","d">>
S_wbraid == <<"w","b","r","a","i","d">>
S_utm_source_google == <<"u","t","m","_","s","o","u","r","c","e","=","g","o","o","g","l","e">>
S_utm_medium_cpc == <<"u","t","m","_","m","e","d","i","u","m","=","c","p","c">>
S_utm_source_fb == <<"u","t","m","_","s","o","u","r","c","e","=","f","b">>
S_fbclid == <<"f","b","c","l","i","d">>
S_utm_campaign == <<"u","t","m","_","c","a","m","p","a","i","g","n">>
S_google == <<"g","o","o","g","l","e">>
S_youtube == <<"y","o","u","t","u","b","e">>
S_youtu_be == <<"y","o","u","t","u",".","b","e">>
S_facebook == <<"f","a","c","e","b","o","o","k">>
S_fb_com == <<"f","b",".","c","o","m">>
S_m_facebook_com == <<"m",".","f","a","c","e","b","o","o","k",".","c","o","m">>
S_instagram == <<"i","n","s","t","a","g","r","a","m">>
S_bing == <<"b","i","n","g">>
S_yandex == <<"y","a","n","d","e","x">>
S_vertu_com == <<"v","e","r","t","u",".","c","o","m">>
S_direct == <<"d","i","r","e","c","t">>
S_website_internal == <<"w","e","b","s","i","t","e","_","i","n","t","e","r","n","a","l">>
S_website_ == <<"w","e","b","s","i","t","e","_">>
S_other == <<"o","t","h","e","r">>
S__paid == <<"_","p","a","i","d">>
S__organic == <<"_","o","r","g","a","n","i","c">>
S_www_dot == <<"w","w","w",".">>

\* google_paid_params
google_paid_params == {S_gad_source, S_gclid, S_gad_campaignid, S_gbraid, S_wbraid}

\* facebook_paid_params
facebook_paid_params == {S_utm_source_fb, S_fbclid}

\* other_paid_params
other_paid_params == {S_utm_campaign}

\* combined_url
CombinedUrl(ref, start_url) == Lower(ref \o <<" ">> \o start_url)

\* is_paid with google_utm_paid true as soon as one of its two parameters is present
IsPaid_UtmEither(ref, start_url) ==
    LET combined_url == CombinedUrl(ref, start_url)
        google_utm_paid == \/ Contains(combined_url, S_utm_source_google)
                           \/ Contains(combined_url, S_utm_medium_cpc)
        is_google_paid == \/ \E param \in google_paid_params : Contains(combined_url, param)
                          \/ google_utm_paid
        is_facebook_paid == \E param \in facebook_paid_params : Contains(combined_url, param)
        is_other_paid == \E param \in other_paid_params : Contains(combined_url, param)
    IN  is_google_paid \/ is_facebook_paid \/ is_other_paid

\* is_paid
IsPaid(ref, start_url) ==
    LET combined_url == CombinedUrl(ref, start_url)
        google_utm_paid == /\ Contains(combined_url, S_utm_source_google)
                           /\ Contains(combined_url, S_utm_medium_cpc)
        is_google_paid == \/ \E param \in google_paid_params : Contains(combined_url, param)
                          \/ google_utm_paid
        is_facebook_paid == \E param \in facebook_paid_params : Contains(combined_url, param)
        is_other_paid == \E param \in other_paid_params : Contains(combined_url, param)
    IN  is_google_paid \/ is_facebook_paid \/ is_other_paid

IsLetter(c) == \E i \in 1..26 : c = UpperChars[i] \/ c = LowerChars[i]

\* the characters urllib allows in a scheme
IsSchemeChar(c) == IsLetter(c) \/ IsDigit(c) \/ c \in {"+", "-", "."}

\* url.find: position of the first element of url that is in chars, or 0
FirstIn(url, chars) ==
    IF \E i \in 1..Len(url) : url[i] \in chars
    THEN CHOOSE i \in 1..Len(url) :
             url[i] \in chars /\ \A j \in 1..(i - 1) : url[j] \notin chars
    ELSE 0

\* urlsplit: what is left of url once a leading scheme and its ':' are removed
AfterScheme(url) ==
    LET i == FirstIn(url, {":"})
    IN  IF i > 1 /\ IsLetter(url[1]) /\ \A j \in 1..(i - 1) : IsSchemeChar(url[j])
        THEN SubSeq(url, i + 1, Len(url))
        ELSE url

\* urlsplit: the netloc, from after '//' to the first of '/', '?', '#'
Netloc(url) ==
    LET rest == AfterScheme(url)
    IN  IF StartsWith(rest, <<"/", "/">>)
        THEN LET tail == SubSeq(rest, 3, Len(rest))
                 e == FirstIn(tail, {"/", "?", "#"})
             IN  IF e = 0 THEN tail ELSE SubSeq(tail, 1, e - 1)
        ELSE <<>>

\* urlsplit raises ValueError('Invalid IPv6 URL') on an unmatched bracket
UrlParseRaises(url) ==
    LET netloc == Netloc(url)
    IN  Contains(netloc, <<"[">>) # Contains(netloc, <<"]">>)

RECURSIVE RemoveAll(_, _)
\* s.replace(p, '')
RemoveAll(s, p) ==
    IF Len(s) < Len(p) THEN s
    ELSE IF SubSeq(s, 1, Len(p)) = p THEN RemoveAll(SubSeq(s, Len(p) + 1, Len(s)), p)
    ELSE <<Head(s)>> \o RemoveAll(Tail(s), p)

\* the base channel with the youtube test moved before the google test
BaseChannel_YoutubeFirst(ref) ==
    LET r == Lower(ref)
    IN  IF ref = <<>> THEN S_direct
        ELSE IF Contains(r, S_youtube) \/ Contains(r, S_youtu_be) THEN S_youtube
        ELSE IF Contains(r, S_google) THEN S_google
        ELSE IF \/ Contains(r, S_facebook) \/ Contains(r, S_fb_com)
                \/ Contains(r, S_m_facebook_com) THEN S_facebook
        ELSE IF Contains(r, S_instagram) THEN S_instagram
        ELSE IF Contains(r, S_bing) THEN S_bing
        ELSE IF Contains(r, S_yandex) THEN S_yandex
        ELSE IF Contains(r, S_vertu_com) THEN S_website_internal
        ELSE IF UrlParseRaises(ref) THEN S_other
        ELSE S_website_ \o RemoveAll(Lower(Netloc(ref)), S_www_dot)

\* the if/elif chain that sets channel
BaseChannel(ref) ==
    LET r == Lower(ref)
    IN  IF ref = <<>> THEN S_direct
        ELSE IF Contains(r, S_google) THEN S_google
        ELSE IF Contains(r, S_youtube) \/ Contains(r, S_youtu_be) THEN S_youtube
        ELSE IF \/ Contains(r, S_facebook) \/ Contains(r, S_fb_com)
                \/ Contains(r, S_m_facebook_com) THEN S_facebook
        ELSE IF Contains(r, S_instagram) THEN S_instagram
        ELSE IF Contains(r, S_bing) THEN S_bing
        ELSE IF Contains(r, S_yandex) THEN S_yandex
        ELSE IF Contains(r, S_vertu_com) THEN S_website_internal
        ELSE IF UrlParseRaises(ref) THEN S_other
        ELSE S_website_ \o RemoveAll(Lower(Netloc(ref)), S_www_dot)

\* analyze_traffic_sources.analyze_traffic_source
analyze_traffic_source(ref, start_url) ==
    IF IsPaid(ref, start_url)
    THEN BaseChannel(ref) \o S__paid
    ELSE BaseChannel(ref) \o S__organic

\* the chain of the copy with an instagram branch before bing
test_BaseChannel_WithInstagram(ref) ==
    LET r == Lower(ref)
    IN  IF ref = <<>> THEN S_direct
        ELSE IF Contains(r, S_google) THEN S_google
        ELSE IF Contains(r, S_facebook) \/ Contains(r, S_fb_com) THEN S_facebook
        ELSE IF Contains(r, S_instagram) THEN S_instagram
        ELSE IF Contains(r, S_bing) THEN S_bing
        ELSE IF Contains(r, S_youtube) THEN S_youtube
        ELSE S_other

\* test_corrected_logic.py: the if/elif chain of its analyze_traffic_source
test_BaseChannel(ref) ==
    LET r == Lower(ref)
    IN  IF ref = <<>> THEN S_direct
        ELSE IF Contains(r, S_google) THEN S_google
        ELSE IF Contains(r, S_facebook) \/ Contains(r, S_fb_com) THEN S_facebook
        ELSE IF Contains(r, S_bing) THEN S_bing
        ELSE IF Contains(r, S_youtube) THEN S_youtube
        ELSE S_other

\* test_corrected_logic.analyze_traffic_source; its paid test is the text
\* of the production one
test_analyze_traffic_source(ref, start_url) ==
    IF IsPaid(ref, start_url)
    THEN test_BaseChannel(ref) \o S__paid
    ELSE test_BaseChannel(ref) \o S__organic

TrafficReferrerInputs ==
    { <<>>,
      <<"h","t","t","p","s",":","/","/","w","w","w",".","g","o","o","g","l","e",".","c","o","m","/">>,
      <<"H","T","T","P","S",":","/","/","W","W","W",".","G","O","O","G","L","E",".","C","O","M","/">>,
      <<"h","t","t","p","s",":","/","/","w","w","w",".","g","o","o","g","l","e",".","c","o","m","/","?","q","=","y","o","u","t","u","b","e">>,
      <<"h","t","t","p","s",":","/","/","w","w","w",".","g","o","o","g","l","e",".","c","o","m","/","?","u","t","m","_","s","o","u","r","c","e","=","g","o","o","g","l","e">>,
      <<"h","t","t","p","s",":","/","/","w","w","w",".","y","o","u","t","u","b","e",".","c","o","m","/">>,
      <<"h","t","t","p","s",":","/","/","y","o","u","t","u",".","b","e","/","x","?","u","=","f","b",".","c","o","m">>,
      <<"h","t","t","p","s",":","/","/","w","w","w",".","f","a","c","e","b","o","o","k",".","c","o","m","/">>,
      <<"h","t","t","p","s",":","/","/","f","b",".","c","o","m","/","i","n","s","t","a","g","r","a","m">>,
      <<"h","t","t","p","s",":","/","/","w","w","w",".","i","n","s","t","a","g","r","a","m",".","c","o","m","/","?","q","=","b","i","n","g">>,
      <<"h","t","t","p","s",":","/","/","w","w","w",".","b","i","n","g",".","c","o","m","/","?","q","=","y","a","n","d","e","x">>,
      <<"h","t","t","p","s",":","/","/","y","a","n","d","e","x",".","r","u","/","?","q","=","v","e","r","t","u",".","c","o","m">>,
      <<"h","t","t","p","s",":","/","/","v","e","r","t","u",".","c","o","m","/","s","h","o","p">>,
      <<"h","t","t","p","s",":","/","/","w","w","w",".","E","x","a","m","p","l","e",".","c","o","m","/","a","?","b">>,
      <<"h","t","t","p",":","/","/","m","y","w","w","w",".","s","i","t","e",".","c","o","m">>,
      <<"h","t","t","p","s",":","/","/","x",".","c","o",":","8","0","#","f">>,
      <<"e","x","a","m","p","l","e",".","c","o","m","/","p","a","g","e">>,
      <<"h","t","t","p",":","/","/","[","x",".","c","o","/">>,
      <<"h","t","t","p",":","/","/","x","]","y",".","c","o">> }

StartUrlInputs ==
    { <<>>,
      <<"h","t","t","p","s",":","/","/","x",".","c","o","/">>,
      <<"h","t","t","p","s",":","/","/","x",".","c","o","/","?","g","c","l","i","d","=","a","b","c">>,
      <<"h","t","t","p","s",":","/","/","x",".","c","o","/","?","g","a","d","_","s","o","u","r","c","e","=","1">>,
      <<"h","t","t","p","s",":","/","/","x",".","c","o","/","?","g","a","d","_","c","a","m","p","a","i","g","n","i","d","=","2">>,
      <<"h","t","t","p","s",":","/","/","x",".","c","o","/","?","G","B","R","A","I","D","=","x">>,
      <<"h","t","t","p","s",":","/","/","x",".","c","o","/","?","w","b","r","a","i","d","=","x">>,
      <<"h","t","t","p","s",":","/","/","x",".","c","o","/","?","u","t","m","_","s","o","u","r","c","e","=","g","o","o","g","l","e","&","u","t","m","_","m","e","d","i","u","m","=","c","p","c">>,
      <<"h","t","t","p","s",":","/","/","x",".","c","o","/","?","u","t","m","_","s","o","u","r","c","e","=","g","o","o","g","l","e">>,
      <<"h","t","t","p","s",":","/","/","x",".","c","o","/","?","u","t","m","_","m","e","d","i","u","m","=","c","p","c">>,
      <<"h","t","t","p","s",":","/","/","x",".","c","o","/","?","u","t","m","_","s","o","u","r","c","e","=","F","B","&","u","t","m","_","m","e","d","i","u","m","=","s","o","c","i","a","l">>,
      <<"h","t","t","p","s",":","/","/","x",".","c","o","/","?","f","b","c","l","i","d","=","1">>,
      <<"h","t","t","p","s",":","/","/","x",".","c","o","/","?","u","t","m","_","c","a","m","p","a","i","g","n","=","x">>,
      <<"h","t","t","p","s",":","/","/","x",".","c","o","/","g","c","l","i","d","-","g","u","i","d","e">>,
      <<"h","t","t","p","s",":","/","/","x",".","c","o","/","?","q","=","u","t","m","_","c","a","m","p","a","i","g","n">>,
      <<"h","t","t","p","s",":","/","/","x",".","c","o","/","f","b","c","l","i","d">> }

InitTraffic ==
    /\ pc = "traffic"
    /\ traffic_referrer \in TrafficReferrerInputs
    /\ traffic_start_url \in StartUrlInputs
    /\ label = <<>>
    /\ IdleValidity
    /\ IdleTiming
    /\ IdleClean
    /\ IdleAnalysis
    /\ IdleConvert
    /\ IdleWorkflow

\* one call of analyze_traffic_source
AnalyzeTrafficSource ==
    /\ pc = "traffic"
    /\ pc' = "labelled"
    /\ label' = analyze_traffic_source(traffic_referrer, traffic_start_url)
    /\ UNCHANGED <<traffic_referrer, traffic_start_url>>
    /\ UNCHANGED <<validityVars, timingVars, cleanVars, analysisVars, convertVars, workflowVars>>

NextTraffic == AnalyzeTrafficSource

SpecTraffic == InitTraffic /\ [][NextTraffic]_vars

(***************************************************************************)
(* Inputs of the validity classifier                                       *)
(***************************************************************************)
SP == <<" ">>

NameInputs ==
    { <<>>, SP, S_Anonymous, S_Guest, S_niming,
      <<"T","e","s","t"," ","U","s","e","r">>,
      <<"D","E","M","O">>,
      <<"x">> \o S_ceshi,
      <<"A","l">>,
      SP \o <<"B","o">> \o SP }

EmailInputs ==
    { <<>>, SP,
      <<"t","e","s","t","e","r">> \o S_at_vycfz,
      <<"a">> \o S_at_vertu_cn,
      <<"A","@","V","E","R","T","U",".","C","N">>,
      S_katrina,
      <<"t","e","s","t","1">> \o S_at_qq,
      <<"b","o","b">> \o S_at_qq,
      <<"a","@","b",".","c","o">>,
      SP \o <<"a","@","b",".","c","o">> \o SP,
      <<"n","o","m","a","i","l">>,
      <<"a">> \o S_at_vycfz \o <<".","a","u">> }

PhoneInputs ==
    { <<>>, SP,
      <<"1","2","3","4","5">>,
      SP \o <<"1","2","3","4","5">> \o SP,
      <<"1","2","3","4","5","6","7">>,
      <<"+","1","-","2","3","4">>,
      <<"7">>,
      S_http \o <<"s",":","/","/","x",".","c","o","m">>,
      S_http \o <<":","/","/","1",".","c","o","m">>,
      SP \o S_http \o <<"1">>,
      S_www \o <<".","5",".","c","o","m">>,
      <<"H","T","T","P","1">>,
      S_NA,
      <<"a","b","c">> }

ReferrerInputs ==
    { <<>>,
      S_wp_admin \o <<"x">>,
      SP \o S_wp_admin,
      <<"H","T","T","P","S",":","/","/","V","E","R","T","U",".","C","O","M",
        "/","W","P","-","A","D","M","I","N","/">>,
      <<"h","t","t","p","s",":","/","/","v","e","r","t","u",".","c","o","m","/">> }


Verdict(b) == IF b THEN "accept" ELSE "reject"

InitValidity ==
    /\ pc = "validity"
    /\ customer_name \in NameInputs
    /\ customer_email \in EmailInputs
    /\ customer_phone \in PhoneInputs
    /\ referrer \in ReferrerInputs
    /\ verdict = NoVerdict
    /\ IdleTiming
    /\ IdleClean
    /\ IdleTraffic
    /\ IdleAnalysis
    /\ IdleConvert
    /\ IdleWorkflow

\* one call of ChatDataProcessor._is_valid_consultation
IsValidConsultation ==
    /\ pc = "validity"
    /\ verdict.pipeline = "none"
    /\ verdict' = [verdict EXCEPT !.pipeline =
            Verdict(_is_valid_consultation(customer_name, customer_email,
                                           customer_phone, referrer))]
    /\ UNCHANGED <<pc, customer_name, customer_email, customer_phone, referrer>>
    /\ UNCHANGED <<timingVars, cleanVars, trafficVars, analysisVars, convertVars, workflowVars>>

\* one call of has_valid_contact_info in channel_analysis.analyze_channel_data
ChannelValidContact ==
    /\ pc = "validity"
    /\ verdict.channel = "none"
    /\ verdict' = [verdict EXCEPT !.channel =
            Verdict(ChannelHasValidContactInfo(customer_name, customer_email,
                                               customer_phone))]
    /\ UNCHANGED <<pc, customer_name, customer_email, customer_phone, referrer>>
    /\ UNCHANGED <<timingVars, cleanVars, trafficVars, analysisVars, convertVars, workflowVars>>

\* one call of has_valid_contact_info in process_monthly_chats.clean_chat_data
MonthlyValidContact ==
    /\ pc = "validity"
    /\ verdict.monthly = "none"
    /\ verdict' = [verdict EXCEPT !.monthly =
            Verdict(MonthlyHasValidContactInfo(customer_name, customer_email,
                                               customer_phone))]
    /\ UNCHANGED <<pc, customer_name, customer_email, customer_phone, referrer>>
    /\ UNCHANGED <<timingVars, cleanVars, trafficVars, analysisVars, convertVars, workflowVars>>

NextValidity == IsValidConsultation \/ ChannelValidContact \/ MonthlyValidContact

SpecValidity == InitValidity /\ [][NextValidity]_vars

(***************************************************************************)
(* Properties of the validity classifier                                   *)
(***************************************************************************)
S_tester_vycfz == <<"t","e","s","t","e","r">> \o S_at_vycfz
S_12345 == <<"1","2","3","4","5">>

\* the exclusion rules as worded: on the strings as given
ExclEmail(e) ==
    \/ \E d \in test_domains : EndsWith(e, d)
    \/ e = S_katrina
    \/ (EndsWith(e, S_at_qq) /\ Contains(e, S_test))

ExclName(n) == \E k \in test_keywords : Contains(Lower(n), k)

ExclReferrer(r) == StartsWith(r, S_wp_admin)

\* the exclusion rules on the trimmed (and, for the email, lowercased) strings
NoExclusion(n, e, r) ==
    /\ ~ExclEmail(Lower(Strip(e)))
    /\ ~ExclName(n)
    /\ ~ExclReferrer(Strip(r))

\* the acceptance rule as worded
AcceptEmail(e) == e # <<>> /\ Contains(e, <<"@">>)

AcceptPhone(p) ==
    LET t == Strip(p)
    IN  /\ t # <<>>
        /\ HasDigit(t)
        /\ ~StartsWith(t, S_http)
        /\ ~StartsWith(t, S_www)
        /\ t # S_NA

\* C1: exclusion dominates acceptance. Whenever the email ends with a test
\* domain or is the denylisted address, or is a qq.com address containing
\* 'test', or the name contains a test keyword (case-insensitively), or the
\* referrer begins with the admin-panel prefix, _is_valid_consultation
\* rejects, whatever the email and the phone otherwise are.
C1_ExclusionDominates ==
    (/\ pc = "validity"
     /\ verdict.pipeline # "none"
     /\ \/ ExclEmail(customer_email)
        \/ ExclName(customer_name)
        \/ ExclReferrer(referrer))
    => verdict.pipeline = "reject"

\* tester@v-ycfz.com with a phone that would be accepted on its own
C1_Witness ==
    /\ pc = "validity"
    /\ customer_email = S_tester_vycfz
    /\ AcceptPhone(customer_phone)
    /\ ~ExclName(customer_name)
    /\ ~ExclReferrer(referrer)
    /\ verdict.pipeline = "reject"

\* C2: when no exclusion rule matches, _is_valid_consultation accepts if and
\* only if the email is non-empty and contains '@', or the trimmed phone is
\* non-empty, has a digit, does not start with 'http' or 'www' and is not
\* 'N/A'. The name never makes a contact valid.
C2_AcceptanceRule ==
    (/\ pc = "validity"
     /\ verdict.pipeline # "none"
     /\ NoExclusion(customer_name, customer_email, referrer))
    => (verdict.pipeline = "accept"
            <=> (AcceptEmail(customer_email) \/ AcceptPhone(customer_phone)))

\* phone '12345' with no email is accepted
C2_Witness ==
    /\ pc = "validity"
    /\ customer_email = <<>>
    /\ customer_phone = S_12345
    /\ NoExclusion(customer_name, customer_email, referrer)
    /\ verdict.pipeline = "accept"

\* the contact of C3: no email, a name that is empty or a default
\* placeholder, a phone with at least one and fewer than seven digits
FewDigitsContact ==
    /\ pc = "validity"
    /\ customer_email = <<>>
    /\ Strip(customer_name) \in invalid_names
    /\ Len(Digits(customer_phone)) >= 1
    /\ Len(Digits(customer_phone)) < 7

AllVerdictsIn ==
    /\ verdict.pipeline # "none"
    /\ verdict.channel # "none"
    /\ verdict.monthly # "none"

\* C3 as claimed: on such a contact the three validity checks all accept.
C3_Original ==
    (FewDigitsContact /\ AllVerdictsIn)
    => /\ verdict.pipeline = "accept"
       /\ verdict.channel = "accept"
       /\ verdict.monthly = "accept"

\* C3 (amended): on such a contact, with a phone that is not URL-like and a
\* referrer that is not an admin-panel page, _is_valid_consultation accepts,
\* but the has_valid_contact_info of channel_analysis and the one of
\* process_monthly_chats both reject: they require at least seven digits.
C3_Amended ==
    (/\ FewDigitsContact
     /\ AllVerdictsIn
     /\ ~StartsWith(Strip(customer_phone), S_http)
     /\ ~StartsWith(Strip(customer_phone), S_www)
     /\ ~ExclReferrer(Strip(referrer)))
    => /\ verdict.pipeline = "accept"
       /\ verdict.channel = "reject"
       /\ verdict.monthly = "reject"

\* phone '12345', no email, name 'Anonymous', all three checks evaluated
C3_Witness ==
    /\ FewDigitsContact
    /\ AllVerdictsIn
    /\ customer_phone = S_12345
    /\ customer_name = S_Anonymous
    /\ referrer = <<>>
    /\ verdict.pipeline = "accept"
    /\ verdict.monthly = "reject"

(***************************************************************************)
(* Properties of the timing analyzer                                       *)
(***************************************************************************)
\* positions of the customer messages that carry a parsed time
CustomerPositions(msgs) ==
    {i \in 1..Len(msgs) : msgs[i].sender = "Customer" /\ msgs[i].time.kind = "ok"}

FirstCustomerPosition(msgs) ==
    CHOOSE i \in CustomerPositions(msgs) : \A j \in CustomerPositions(msgs) : i <= j

\* positions of the agent messages that qualify as a reply: after the first
\* customer message, with a parsed time comparable to and not before T0
QualifyingReplies(msgs) ==
    IF CustomerPositions(msgs) = {} THEN {}
    ELSE LET c == FirstCustomerPosition(msgs)
         IN  {j \in (c + 1)..Len(msgs) :
                 /\ msgs[j].sender = "Agent"
                 /\ msgs[j].time.kind = "ok"
                 /\ msgs[j].time.aware = msgs[c].time.aware
                 /\ msgs[j].time.t >= msgs[c].time.t}

\* d: first qualifying reply minus first customer message, in milliseconds
ReplyDelay(msgs) ==
    LET c == FirstCustomerPosition(msgs)
        r == CHOOSE j \in QualifyingReplies(msgs) :
                 \A k \in QualifyingReplies(msgs) : j <= k
    IN  msgs[r].time.t - msgs[c].time.t

\* C4 as claimed: with the first customer message at T0 and the first
\* qualifying agent reply at T0+d, the latency reported is d, and the
\* qualification is Qualified if d <= 30 s, Unqualified if d > 30 s.
C4_Original ==
    (pc = "timed" /\ QualifyingReplies(messages) # {})
    => /\ timing.response_time_seconds = ReplyDelay(messages)
       /\ timing.is_qualified =
              IF ReplyDelay(messages) <= 30000 THEN "Qualified" ELSE "Unqualified"

\* C4 (amended): the latency reported is d rounded to 2 decimals, and the
\* qualification is decided on the unrounded d: Qualified if d <= 30 s
\* (exactly 30 s included), Unqualified if d > 30 s.
C4_Amended ==
    (pc = "timed" /\ QualifyingReplies(messages) # {})
    => /\ timing.response_time_seconds = Round2(ReplyDelay(messages))
       /\ timing.is_qualified =
              IF ReplyDelay(messages) <= 30000 THEN "Qualified" ELSE "Unqualified"

\* a reply exactly 30 s after the customer's first message, found Qualified
C4_Witness ==
    /\ pc = "timed"
    /\ QualifyingReplies(messages) # {}
    /\ ReplyDelay(messages) = 30000
    /\ timing.response_time_seconds = 30000
    /\ timing.is_qualified = "Qualified"

\* C5: a list with no customer message (the empty list included), or with a
\* customer message but no qualifying agent reply after it, gets NoReply and
\* no latency.
C5_NoReply ==
    (pc = "timed" /\ QualifyingReplies(messages) = {})
    => /\ timing.is_qualified = "NoReply"
       /\ timing.response_time_seconds = None

\* a customer message followed only by agent messages that do not qualify
C5_Witness ==
    /\ pc = "timed"
    /\ CustomerPositions(messages) # {}
    /\ QualifyingReplies(messages) = {}
    /\ \E j \in (FirstCustomerPosition(messages) + 1)..Len(messages) :
           messages[j].sender = "Agent"
    /\ timing.is_qualified = "NoReply"

\* C6 as claimed: a customer message at T0 followed by an agent reply
\* timestamped before T0, and no other agent message, gets AnomalousTime and
\* no latency.
C6_AnomalousTime ==
    (/\ pc = "timed"
     /\ CustomerPositions(messages) # {}
     /\ \E j \in (FirstCustomerPosition(messages) + 1)..Len(messages) :
           /\ messages[j].sender = "Agent"
           /\ messages[j].time.kind = "ok"
           /\ messages[j].time.aware
                  = messages[FirstCustomerPosition(messages)].time.aware
           /\ messages[j].time.t < messages[FirstCustomerPosition(messages)].time.t
           /\ \A k \in 1..Len(messages) :
                  messages[k].sender = "Agent" => k = j)
    => /\ timing.is_qualified = "AnomalousTime"
       /\ timing.response_time_seconds = None

(***************************************************************************)
(* Inputs of the cleaners                                                  *)
(***************************************************************************)
S_a_b_co == <<"a","@","b",".","c","o">>
S_hi == <<"h","i">>
S_Al == <<"A","l">>

Agent1 == [NoUser EXCEPT !.type = "agent", !.id = "a1",
                         !.name = <<"K","i","m">>, !.email = <<"k","@","b",".","c","o">>]

Customer(id, name, email, phone) ==
    [NoUser EXCEPT !.type = "customer", !.id = id, !.name = name,
                   !.email = email, !.phone = phone]

UsersInputs ==
    { <<Agent1>>,
      <<Agent1, Customer("c1", S_Al, S_a_b_co, <<>>)>>,
      <<Customer("", <<>>, <<>>, S_12345)>>,
      <<Customer("c1", S_Al, <<>>, <<>>), Agent1>>,
      <<Customer("c1", S_Al, S_tester_vycfz, S_12345)>>,
      << [Customer("c1", <<>>, <<>>, <<>>) EXCEPT
              !.session_fields = << [key |-> <<"E","m","a","i","l">>, value |-> S_a_b_co] >>,
              !.visit = [referrer |-> <<>>, last_pages |-> << S_wp_admin >>]] >> }

NoForm == [email |-> <<>>, phone |-> <<>>]

Event(type, author_id, text, created_at) ==
    [type |-> type, author_id |-> author_id, text |-> text, created_at |-> created_at,
     form_data |-> NoForm, form_type |-> "", fields |-> <<>>]

ValidCustomerUsers == <<Agent1, Customer("c1", S_Al, S_a_b_co, <<>>)>>

EmptyTimeEvents == << Event("message", "c1", S_hi, RawEmpty) >>

FormEvents12345 ==
    << Event("system_message", "c1", S_hi, RawInstant(0, "Z")),
       [Event("form", "c1", S_hi, RawEmpty) EXCEPT
            !.form_data = [email |-> <<>>, phone |-> S_12345],
            !.form_type = "prechat",
            !.fields = << [name |-> S_Phone_Number, answer |-> S_12345] >>] >>

EventListInputs ==
    { <<>>,
      << Event("message", "c1", SP \o S_hi \o SP, RawInstant(1000, "Z")),
         Event("message", "a1", S_hi, RawInstant(1000, "naive")),
         Event("message", "c1", S_hi, RawInstant(28801000, "+08:00")) >>,
      << Event("message", "a1", S_hi, RawInstant(2000, "naive")) >>,
      FormEvents12345,
      << Event("message", "c1", SP, RawInstant(0, "Z")),
         Event("file", "c1", <<>>, RawBad(1)) >>,
      << Event("message", "c1", S_hi, RawInstant(28801500, "+08:00")),
         Event("message", "a1", S_hi, RawBad(1)),
         Event("message", "c1", S_hi, RawEmpty) >> }

\* a raw chat before it gets its id; the events sit at the top level or under thread
RawChat(users, events, layout) ==
    [object |-> TRUE,
     id |-> 0,
     users |-> users,
     events |-> IF layout = "top" THEN events ELSE <<>>,
     thread |-> [events |-> IF layout = "thread" THEN events ELSE <<>>],
     created_at |-> RawInstant(0, "Z")]

\* an array element that is not an object (the string 'oops')
NotAChat == [RawChat(<<>>, <<>>, "top") EXCEPT !.object = FALSE]

\* a participant that is not an object
NotAUser == [NoUser EXCEPT !.object = FALSE]

\* a customer with a usable email and the given changes
MalformedCustomer(name, email, phone, last_pages) ==
    << [Customer("c1", name, email, phone) EXCEPT !.visit.last_pages = last_pages] >>

\* records with one malformed part each; the third and the sixth are read
\* without touching the malformed part
MalformedUsersInputs ==
    { <<NotAUser, Customer("c1", S_Al, S_a_b_co, <<>>)>>,
      <<Agent1, NotAUser>>,
      <<Customer("c1", S_Al, S_a_b_co, <<>>), NotAUser>>,
      MalformedCustomer(S_Al, NotAString, <<>>, <<>>),
      MalformedCustomer(NotAString, S_a_b_co, <<>>, <<>>),
      MalformedCustomer(NotAString, S_tester_vycfz, <<>>, <<>>),
      MalformedCustomer(S_Al, S_a_b_co, NotAString, <<>>),
      MalformedCustomer(S_Al, S_a_b_co, <<>>, <<NotAPage>>) }

CustomerMessageEvents == << Event("message", "c1", S_hi, RawInstant(1000, "Z")) >>

\* longest input array the cleaning runs draw
MaxChats == 2

\* arrays of up to m raw chats; the chat at position k has id k
RawArrays(bodies, m) ==
    UNION { { [k \in 1..n |-> [b[k] EXCEPT !.id = k]] : b \in [1..n -> bodies] }
            : n \in 0..m }

\* raw chats of the export layout ChatDataProcessor reads (events at the top
\* level), and one chat of the other layout
PipelineInputs ==
    {RawChat(u, ev, "top") : u \in UsersInputs, ev \in {<<>>, FormEvents12345}}
        \cup {RawChat(ValidCustomerUsers, ev, "top") : ev \in EventListInputs}
        \cup {RawChat(ValidCustomerUsers, EmptyTimeEvents, "thread")}
        \cup {RawChat(u, CustomerMessageEvents, "top") : u \in MalformedUsersInputs}
        \cup {NotAChat}

\* raw chats of the export layout clean_chat_data.py reads (events under
\* thread), and one chat of the other layout
CustomerOnlyInputs ==
    {RawChat(u, ev, "thread") :
         u \in {<<Agent1>>, ValidCustomerUsers, <<Customer("", <<>>, <<>>, S_12345)>>},
         ev \in EventListInputs}
        \cup {RawChat(ValidCustomerUsers, EmptyTimeEvents, "top")}
        \cup {RawChat(u, CustomerMessageEvents, "thread") :
                  u \in { <<NotAUser, Customer("c1", S_Al, S_a_b_co, <<>>)>>,
                          <<Customer("c1", S_Al, S_a_b_co, <<>>), NotAUser>>,
                          MalformedCustomer(S_Al, NotAString, <<>>, <<>>) }}
        \cup {NotAChat}

(***************************************************************************)
(* ChatDataProcessor.clean_chat_data as a run                              *)
(***************************************************************************)
\* the files the run is given: every array of raw chats, or no usable file
PipelineFiles(m) ==
    {File("ok", a) : a \in RawArrays(PipelineInputs, m)} \cup FailedFiles

InitPipelineCleanOn(files) ==
    /\ pc = "pipeline_open"
    /\ input_file \in files
    /\ data = <<>>
    /\ index = 0
    /\ cleaned_chats = <<>>
    /\ output_file = <<>>
    /\ validity_calls = <<>>
    /\ returned = <<>>
    /\ IdleValidity
    /\ IdleTiming
    /\ IdleTraffic
    /\ IdleAnalysis
    /\ IdleConvert
    /\ IdleWorkflow

InitPipelineClean == InitPipelineCleanOn(PipelineFiles(MaxChats))

\* the try block that reads the input file; any failure returns (0, 0)
PipelineOpen ==
    /\ pc = "pipeline_open"
    /\ IF input_file.status = "ok"
       THEN /\ pc' = "pipeline_loop"
            /\ data' = input_file.content
            /\ returned' = returned
       ELSE /\ pc' = "pipeline_returned"
            /\ data' = data
            /\ returned' = << <<0, 0>> >>
    /\ UNCHANGED <<input_file, index, cleaned_chats, output_file, validity_calls>>
    /\ UNCHANGED <<validityVars, timingVars, trafficVars, analysisVars, convertVars, workflowVars>>

\* one iteration of `for chat in data`
PipelineCleanChat ==
    /\ pc = "pipeline_loop"
    /\ index < Len(data)
    /\ ~PipelineRaises(data[index + 1])
    /\ index' = index + 1
    /\ cleaned_chats' = cleaned_chats \o PipelineCleanOne(data[index + 1])
    /\ validity_calls' = validity_calls \o PipelineClassified(data[index + 1])
    /\ UNCHANGED <<pc, input_file, data, output_file, returned>>
    /\ UNCHANGED <<validityVars, timingVars, trafficVars, analysisVars, convertVars, workflowVars>>

\* an iteration that fails: the exception leaves clean_chat_data before
\* anything is written
PipelineCleanRaise ==
    /\ pc = "pipeline_loop"
    /\ index < Len(data)
    /\ PipelineRaises(data[index + 1])
    /\ pc' = "pipeline_raised"
    /\ UNCHANGED cleanVars
    /\ UNCHANGED <<validityVars, timingVars, trafficVars, analysisVars, convertVars, workflowVars>>

\* the json.dump of cleaned_chats after the loop, which succeeds or fails
PipelineCleanSave ==
    /\ pc = "pipeline_loop"
    /\ index = Len(data)
    /\ \/ /\ pc' = "pipeline_saved"
          /\ output_file' = <<cleaned_chats>>
          /\ returned' = << <<Len(data), Len(cleaned_chats)>> >>
       \/ /\ pc' = "pipeline_write_failed"
          /\ output_file' = output_file
          /\ returned' = << <<Len(data), 0>> >>
    /\ UNCHANGED <<input_file, data, index, cleaned_chats, validity_calls>>
    /\ UNCHANGED <<validityVars, timingVars, trafficVars, analysisVars, convertVars, workflowVars>>

NextPipelineClean ==
    PipelineOpen \/ PipelineCleanChat \/ PipelineCleanRaise \/ PipelineCleanSave

SpecPipelineClean == InitPipelineClean /\ [][NextPipelineClean]_vars

(***************************************************************************)
(* ChatDataProcessor.clean_chat_data on one-record arrays whose record     *)
(* names its contact in several places at once                             *)
(***************************************************************************)
\* distinct addresses and numbers, one per place a contact can come from
Mail(c) == <<c>> \o <<"@","b",".","c","o">>
Tel(c) == <<"5","5","5">> \o <<c>>

S_Email_Address == <<"E","m","a","i","l"," ","A","d","d","r","e","s","s">>
S_Mobile == <<"M","o","b","i","l","e">>

S_Contact_Phone == <<"C","o","n","t","a","c","t"," ","P","h","o","n","e">>
S_phone_no == <<"p","h","o","n","e","_","n","o">>

\* session_fields lists: none, an email annotation, an empty then a filled
\* email annotation, two filled ones, and phone annotations; the last list
\* names the phone with keys that only contain 'phone'
SessionFieldInputs ==
    { <<>>,
      << [key |-> S_Contact_Phone, value |-> Tel("7")],
         [key |-> S_phone_no, value |-> Tel("8")] >>,
      << [key |-> S_email, value |-> Mail("s")] >>,
      << [key |-> S_email, value |-> <<>>],
         [key |-> S_Email_Address, value |-> Mail("t")] >>,
      << [key |-> S_Email_Address, value |-> Mail("s")],
         [key |-> S_Mobile, value |-> Tel("1")],
         [key |-> S_email, value |-> Mail("t")],
         [key |-> S_telephone, value |-> Tel("2")] >> }

\* a form event with the given form_data, form_type and fields
Form(form_data, form_type, fields) ==
    [Event("form", "c1", <<>>, RawEmpty) EXCEPT
         !.form_data = form_data, !.form_type = form_type, !.fields = fields]

PrechatFieldInputs ==
    << [name |-> S_Email_Address, answer |-> Mail("q")],
       [name |-> S_Phone_Number, answer |-> Tel("5")],
       [name |-> S_email, answer |-> Mail("r")] >>

\* event lists with zero, one or two form events around a message
FormEventInputs ==
    { << Event("message", "c1", S_hi, RawInstant(0, "Z")) >>,
      << Form([email |-> Mail("f"), phone |-> Tel("3")], "prechat", PrechatFieldInputs) >>,
      << Form(NoForm, "prechat", PrechatFieldInputs),
         Event("message", "c1", S_hi, RawInstant(0, "Z")),
         Form([email |-> Mail("g"), phone |-> Tel("4")], "", <<>>) >>,
      << Form([email |-> Mail("f"), phone |-> <<>>], "", PrechatFieldInputs),
         Form([email |-> Mail("g"), phone |-> Tel("4")], "prechat", <<>>) >>,
      << Form([email |-> <<>>, phone |-> Tel("3")], "prechat",
              << [name |-> S_Phone_Number, answer |-> <<>>],
                 [name |-> S_email, answer |-> Mail("r")] >>) >> }

\* raw chats whose customer carries its contact in any subset of the places,
\* and one whose email annotation is a number
ContactSourceInputs ==
    { RawChat(<< Agent1,
                 [Customer("c1", S_Al, pe, pp) EXCEPT !.session_fields = sf] >>,
              ev, "top") :
          pe \in {<<>>, Mail("p")}, pp \in {<<>>, Tel("0"), SP},
          sf \in SessionFieldInputs, ev \in FormEventInputs }
        \cup { RawChat(<< Agent1,
                          [Customer("c1", S_Al, <<>>, <<>>) EXCEPT
                               !.session_fields =
                                   << [key |-> S_email, value |-> NotAString] >>] >>,
                       <<>>, "top") }

ContactSourceFiles ==
    {File("ok", << [b EXCEPT !.id = 1] >>) : b \in ContactSourceInputs}

InitContactSources == InitPipelineCleanOn(ContactSourceFiles)

SpecContactSources == InitContactSources /\ [][NextPipelineClean]_vars

(***************************************************************************)
(* clean_chat_data.clean_chat_data as a run                                *)
(***************************************************************************)
\* the files the run is given: every array of raw chats, or no usable file
CustomerOnlyFiles(m) ==
    {File("ok", a) : a \in RawArrays(CustomerOnlyInputs, m)} \cup FailedFiles

InitCustomerOnlyOn(files) ==
    /\ pc = "customer_only_open"
    /\ input_file \in files
    /\ data = <<>>
    /\ index = 0
    /\ cleaned_chats = <<>>
    /\ output_file = <<>>
    /\ validity_calls = <<>>
    /\ returned = <<>>
    /\ IdleValidity
    /\ IdleTiming
    /\ IdleTraffic
    /\ IdleAnalysis
    /\ IdleConvert
    /\ IdleWorkflow

InitCustomerOnly == InitCustomerOnlyOn(CustomerOnlyFiles(MaxChats))

\* the try block that reads the input file; any failure returns None
CustomerOnlyOpen ==
    /\ pc = "customer_only_open"
    /\ IF input_file.status = "ok"
       THEN /\ pc' = "customer_only_loop"
            /\ data' = input_file.content
            /\ returned' = returned
       ELSE /\ pc' = "customer_only_returned"
            /\ data' = data
            /\ returned' = <<None>>
    /\ UNCHANGED <<input_file, index, cleaned_chats, output_file, validity_calls>>
    /\ UNCHANGED <<validityVars, timingVars, trafficVars, analysisVars, convertVars, workflowVars>>

\* one iteration of `for chat in data`
CustomerOnlyCleanChat ==
    /\ pc = "customer_only_loop"
    /\ index < Len(data)
    /\ ~CustomerOnlyRaises(data[index + 1])
    /\ index' = index + 1
    /\ cleaned_chats' = cleaned_chats \o CustomerOnlyCleanOne(data[index + 1])
    /\ UNCHANGED <<pc, input_file, data, output_file, validity_calls, returned>>
    /\ UNCHANGED <<validityVars, timingVars, trafficVars, analysisVars, convertVars, workflowVars>>

\* an iteration that fails: the exception leaves clean_chat_data before
\* anything is written
CustomerOnlyCleanRaise ==
    /\ pc = "customer_only_loop"
    /\ index < Len(data)
    /\ CustomerOnlyRaises(data[index + 1])
    /\ pc' = "customer_only_raised"
    /\ UNCHANGED cleanVars
    /\ UNCHANGED <<validityVars, timingVars, trafficVars, analysisVars, convertVars, workflowVars>>

\* the json.dump of cleaned_chats after the loop, which succeeds or fails
CustomerOnlySave ==
    /\ pc = "customer_only_loop"
    /\ index = Len(data)
    /\ \/ /\ pc' = "customer_only_saved"
          /\ output_file' = <<cleaned_chats>>
       \/ /\ pc' = "customer_only_write_failed"
          /\ output_file' = output_file
    /\ returned' = <<None>>
    /\ UNCHANGED <<input_file, data, index, cleaned_chats, validity_calls>>
    /\ UNCHANGED <<validityVars, timingVars, trafficVars, analysisVars, convertVars, workflowVars>>

NextCustomerOnly ==
    CustomerOnlyOpen \/ CustomerOnlyCleanChat \/ CustomerOnlyCleanRaise \/ CustomerOnlySave

SpecCustomerOnly == InitCustomerOnly /\ [][NextCustomerOnly]_vars

(***************************************************************************)
(* analyze_chats.analyze_chat_with_gemini                                  *)
(*                                                                         *)
(* What the remote model does on one call: generate_content raises         *)
(* ("exception"), the prompt is blocked ("blocked"), or text comes back:   *)
(* empty, not JSON even without its code fences, a JSON value that is not  *)
(* an object, or a JSON object.  keys are the keys of the object beyond    *)
(* the five content keys.                                                  *)
(***************************************************************************)
Response(outcome, text, keys) == [outcome |-> outcome, text |-> text, keys |-> keys]

\* the keys of a record of analyzed_results that a JSON object can also carry
K_error == "API_error"
K_response_time == "response_time_seconds"
K_is_qualified == "is_qualified"

\* the dict returned on a failure: an error message and a fixed summary
ErrorContent(summary) == [keys |-> {K_error}, summary |-> summary]

\* analyze_chat_with_gemini(transcript, client, model_name, chat_id)
analyze_chat_with_gemini(client, response) ==
    IF client = "none" THEN ErrorContent("")
    ELSE IF response.outcome = "exception" THEN ErrorContent("Analysis error")
    ELSE IF response.outcome = "blocked" THEN ErrorContent("Prompt blocked")
    ELSE IF response.text = "empty" THEN ErrorContent("Empty response")
    ELSE IF response.text \in {"non_json", "not_dict"} THEN ErrorContent("Analysis error")
    ELSE [keys |-> response.keys, summary |-> "summary"]

(***************************************************************************)
(* analyze_chats.run_analysis_process                                      *)
(***************************************************************************)
\* the slice with the limit not applied
Take_All(s, n) == s

\* the slice s[:n] for n >= 0
Take(s, n) == SubSeq(s, 1, IF n < Len(s) THEN n ELSE Len(s))

\* the record appended for a chat with no messages
NoMessagesResult(chat) ==
    [chat_id |-> chat.chat_id, summary |-> "",
     response_time_seconds |-> None, is_qualified |-> "NoReply",
     first_message_time |-> NoTime, api_error |-> FALSE]

\* chat_analysis with the timing fields copied from the service's result
\* when it has them
ChatAnalysis_ServiceOverrides(chat, timing_metrics, analysis_content) ==
    [chat_id |-> chat.chat_id,
     summary |-> IF analysis_content.summary # "" THEN analysis_content.summary
                 ELSE "[none]",
     response_time_seconds |->
         IF K_response_time \in analysis_content.keys THEN 1000
         ELSE timing_metrics.response_time_seconds,
     is_qualified |->
         IF K_is_qualified \in analysis_content.keys THEN "Qualified"
         ELSE timing_metrics.is_qualified,
     first_message_time |-> timing_metrics.first_message_time,
     api_error |-> K_error \in analysis_content.keys]

\* chat_analysis: the content fields of the service's result next to the
\* timing fields of calculate_timing_metrics
ChatAnalysis(chat, timing_metrics, analysis_content) ==
    [chat_id |-> chat.chat_id,
     summary |-> IF analysis_content.summary # "" THEN analysis_content.summary
                 ELSE "[none]",
     response_time_seconds |-> timing_metrics.response_time_seconds,
     is_qualified |-> timing_metrics.is_qualified,
     first_message_time |-> timing_metrics.first_message_time,
     api_error |-> K_error \in analysis_content.keys]

\* the responses the runs draw
ResponseInputs ==
    { Response("exception", "empty", {}),
      Response("blocked", "empty", {}),
      Response("text", "empty", {}),
      Response("text", "non_json", {}),
      Response("text", "not_dict", {}),
      Response("text", "dict", {}),
      Response("text", "dict", {K_response_time, K_is_qualified}),
      Response("text", "dict", {K_error}) }

Message(ms, sender) == [time |-> Instant(ms, FALSE), sender |-> sender]

\* cleaned chats before they get their id: no messages, a message whose
\* 'time' is a number, a reply after 1 s, a reply after 31 s
AnalysisChatInputs ==
    { [chat_id |-> 0, customer |-> [name |-> S_Al], messages |-> <<>>],
      [chat_id |-> 0, customer |-> [name |-> S_Al],
       messages |-> << [time |-> NumberTime, sender |-> "Customer"] >>],
      [chat_id |-> 0, customer |-> [name |-> S_Al],
       messages |-> << Message(0, "Customer"), Message(1000, "Agent") >>],
      [chat_id |-> 0, customer |-> [name |-> <<>>],
       messages |-> << Message(0, "Customer"), Message(31000, "Agent") >>] }

\* arrays of up to n cleaned chats; the chat at position k has chat_id k
CleanedArrays(n) ==
    UNION { { [k \in 1..m |-> [b[k] EXCEPT !.chat_id = k]] :
                  b \in [1..m -> AnalysisChatInputs] }
            : m \in 0..n }

AnalysisFiles(n) == {File("ok", a) : a \in CleanedArrays(n)} \cup FailedFiles

InitAnalysisOn(files) ==
    /\ pc = "analysis_open"
    /\ cleaned_input_file \in files
    /\ client_instance \in {"none", "client"}
    /\ limit \in {None, 1}
    /\ service_calls = <<>>
    /\ chats_to_process = <<>>
    /\ chat_index = 0
    /\ analyzed_results = <<>>
    /\ successful_api_calls = 0
    /\ skipped_api_calls = 0
    /\ final_output_file_excel = <<>>
    /\ analysis_returned = <<>>
    /\ IdleValidity
    /\ IdleTiming
    /\ IdleClean
    /\ IdleConvert
    /\ IdleWorkflow
    /\ IdleTraffic

InitAnalysis == InitAnalysisOn(AnalysisFiles(MaxChats))

\* the load with a failure treated as an empty list of chats
AnalysisLoad_EmptyOnFailure ==
    /\ pc = "analysis_open"
    /\ pc' = "analysis_loop"
    /\ chats_to_process' =
           IF limit # None
           THEN Take(cleaned_input_file.content, limit)
           ELSE cleaned_input_file.content
    /\ UNCHANGED <<cleaned_input_file, client_instance, limit, service_calls,
                   chat_index, analyzed_results, successful_api_calls,
                   skipped_api_calls, final_output_file_excel, analysis_returned>>
    /\ UNCHANGED <<validityVars, timingVars, cleanVars, trafficVars, convertVars, workflowVars>>

\* the try block that loads the cleaned file; any failure returns []
AnalysisLoad ==
    /\ pc = "analysis_open"
    /\ IF cleaned_input_file.status = "ok"
       THEN /\ pc' = "analysis_loop"
            /\ chats_to_process' =
                   IF limit # None
                   THEN Take(cleaned_input_file.content, limit)
                   ELSE cleaned_input_file.content
            /\ analysis_returned' = analysis_returned
       ELSE /\ pc' = "analysis_returned"
            /\ chats_to_process' = chats_to_process
            /\ analysis_returned' = << <<>> >>
    /\ UNCHANGED <<cleaned_input_file, client_instance, limit, service_calls,
                   chat_index, analyzed_results, successful_api_calls,
                   skipped_api_calls, final_output_file_excel>>
    /\ UNCHANGED <<validityVars, timingVars, cleanVars, trafficVars, convertVars, workflowVars>>

\* the iteration calls calculate_timing_metrics on messages it fails on
AnalyzeChatRaises(chat) == chat.messages # <<>> /\ TimingRaises(chat.messages)

\* one iteration of `for i, chat in enumerate(chats_to_process)`
AnalyzeChat ==
    /\ pc = "analysis_loop"
    /\ chat_index < Len(chats_to_process)
    /\ ~AnalyzeChatRaises(chats_to_process[chat_index + 1])
    /\ LET chat == chats_to_process[chat_index + 1]
       IN  IF chat.messages = <<>>
           THEN /\ analyzed_results' = Append(analyzed_results, NoMessagesResult(chat))
                /\ skipped_api_calls' = skipped_api_calls + 1
                /\ UNCHANGED <<successful_api_calls, service_calls>>
           ELSE \E response \in ResponseInputs :
                LET timing_metrics == calculate_timing_metrics(chat.messages)
                    analysis_content == analyze_chat_with_gemini(client_instance, response)
                IN  /\ analyzed_results' =
                           Append(analyzed_results,
                                  ChatAnalysis(chat, timing_metrics, analysis_content))
                    /\ service_calls' =
                           Append(service_calls,
                                  [chat_id |-> chat.chat_id,
                                   response |-> IF client_instance = "none"
                                                THEN Response("no_client", "empty", {})
                                                ELSE response])
                    /\ IF K_error \in analysis_content.keys
                       THEN /\ skipped_api_calls' = skipped_api_calls + 1
                            /\ UNCHANGED successful_api_calls
                       ELSE /\ successful_api_calls' = successful_api_calls + 1
                            /\ UNCHANGED skipped_api_calls
    /\ chat_index' = chat_index + 1
    /\ UNCHANGED <<pc, cleaned_input_file, client_instance, limit, chats_to_process,
                   final_output_file_excel, analysis_returned>>
    /\ UNCHANGED <<validityVars, timingVars, cleanVars, trafficVars, convertVars, workflowVars>>

\* the end of the function with [] returned when the report cannot be written
AnalysisSave_FailureReturnsEmpty ==
    /\ pc = "analysis_loop"
    /\ chat_index = Len(chats_to_process)
    /\ pc' = "analysis_returned"
    /\ \/ /\ final_output_file_excel' = <<analyzed_results>>
          /\ analysis_returned' = <<analyzed_results>>
       \/ /\ final_output_file_excel' = final_output_file_excel
          /\ analysis_returned' = << <<>> >>
    /\ UNCHANGED <<cleaned_input_file, client_instance, limit, service_calls,
                   chats_to_process, chat_index, analyzed_results,
                   successful_api_calls, skipped_api_calls>>
    /\ UNCHANGED <<validityVars, timingVars, cleanVars, trafficVars, convertVars, workflowVars>>

\* after the loop: the Excel report is written, or the write fails and the
\* except clauses swallow the error; analyzed_results is returned either way
AnalysisSave ==
    /\ pc = "analysis_loop"
    /\ chat_index = Len(chats_to_process)
    /\ pc' = "analysis_returned"
    /\ \/ final_output_file_excel' = <<analyzed_results>>
       \/ final_output_file_excel' = final_output_file_excel
    /\ analysis_returned' = <<analyzed_results>>
    /\ UNCHANGED <<cleaned_input_file, client_instance, limit, service_calls,
                   chats_to_process, chat_index, analyzed_results,
                   successful_api_calls, skipped_api_calls>>
    /\ UNCHANGED <<validityVars, timingVars, cleanVars, trafficVars, convertVars, workflowVars>>

\* an iteration that fails: the exception of calculate_timing_metrics leaves
\* run_analysis_process before the report is written
AnalyzeChatRaise ==
    /\ pc = "analysis_loop"
    /\ chat_index < Len(chats_to_process)
    /\ AnalyzeChatRaises(chats_to_process[chat_index + 1])
    /\ pc' = "analysis_raised"
    /\ UNCHANGED analysisVars
    /\ UNCHANGED <<validityVars, timingVars, cleanVars, trafficVars, convertVars, workflowVars>>

NextAnalysis == AnalysisLoad \/ AnalyzeChat \/ AnalyzeChatRaise \/ AnalysisSave

SpecAnalysis == InitAnalysis /\ [][NextAnalysis]_vars

(***************************************************************************)
(* The three batch entry points on a usable or unusable input file         *)
(***************************************************************************)
\* events of every kind the message loop tells apart, authored by nobody
\* ('') or by the agent: a system message, a padded text, a form with text,
\* a blank text and a text
MixedEvents ==
    << Event("system_message", "", S_hi, RawInstant(0, "Z")),
       Event("message", "", SP \o S_hi \o SP, RawInstant(1000, "Z")),
       Event("form", "", S_hi, RawEmpty),
       Event("message", "a1", SP, RawInstant(2000, "Z")),
       Event("file", "a1", S_hi, RawInstant(3000, "Z")) >>

\* a one-record file whose customer has no id and a usable phone
AnonymousCustomerFiles ==
    { File("ok", << [RawChat(<< Customer("", <<>>, <<>>, S_12345) >>, MixedEvents, "top")
                        EXCEPT !.id = 1] >>) }

InitEntryPoints ==
    \/ InitPipelineCleanOn(PipelineFiles(1) \cup AnonymousCustomerFiles)
    \/ InitCustomerOnlyOn(CustomerOnlyFiles(1))
    \/ InitAnalysisOn(AnalysisFiles(1))

NextEntryPoints == NextPipelineClean \/ NextCustomerOnly \/ NextAnalysis

SpecEntryPoints == InitEntryPoints /\ [][NextEntryPoints]_vars

(***************************************************************************)
(* ChatDataProcessor.convert_to_simplified_format and process_pipeline     *)
(*                                                                         *)
(* created_at is a string, and the sort compares strings: '' is the least, *)
(* two 'YYYY-MM-DD HH:MM:SS' strings compare as their instants do, and an  *)
(* unparsable string of the inputs ('x1', 'x2', ...) starts with a letter  *)
(* and so compares above every formatted time.                             *)
(***************************************************************************)
\* the rank of a time string in the order of str.__lt__
StringRank(time) ==
    IF time.kind = "empty" THEN <<0, 0>>
    ELSE IF time.kind = "ok" THEN <<1, time.t>>
    ELSE <<2, time.t>>

\* a < b for two created_at strings
StringLess(a, b) ==
    \/ StringRank(a)[1] < StringRank(b)[1]
    \/ StringRank(a)[1] = StringRank(b)[1] /\ StringRank(a)[2] < StringRank(b)[2]

\* the record the loop body builds from one cleaned chat
SimplifiedRecord(chat) ==
    [id |-> chat.chat_id,
     name |-> Strip(chat.customer.name),
     email |-> Strip(chat.customer.email),
     phone |-> Strip(chat.customer.phone),
     start_url |-> chat.source.start_url,
     referrer |-> chat.source.referrer,
     created_at |-> IF chat.messages # <<>> THEN chat.messages[1].time ELSE EmptyTime,
     messages_count |-> Len(chat.messages)]

RECURSIVE SimplifiedRecords(_)
\* the `for chat in cleaned_data` loop
SimplifiedRecords(cleaned_data) ==
    IF cleaned_data = <<>> THEN <<>>
    ELSE <<SimplifiedRecord(Head(cleaned_data))>> \o SimplifiedRecords(Tail(cleaned_data))

RECURSIVE RecordsAbove(_, _, _)
\* the records of s whose key is above the pivot key (above = TRUE) or is
\* not above it (above = FALSE), in the order of s
RecordsAbove(s, pivot, above) ==
    IF s = <<>> THEN <<>>
    ELSE (IF StringLess(pivot, Head(s).created_at) = above THEN <<Head(s)>> ELSE <<>>)
             \o RecordsAbove(Tail(s), pivot, above)

RECURSIVE SortByCreatedAtDescending(_)
\* list.sort(key=created_at, reverse=True): descending, and stable, so
\* records with equal keys keep the order they had in the list
SortByCreatedAtDescending(records) ==
    IF records = <<>> THEN <<>>
    ELSE LET first == Head(records)
         IN  SortByCreatedAtDescending(RecordsAbove(Tail(records), first.created_at, TRUE))
                 \o <<first>>
                 \o SortByCreatedAtDescending(RecordsAbove(Tail(records), first.created_at, FALSE))

\* what convert_to_simplified_format writes for a cleaned file
convert_to_simplified_format(cleaned_data) ==
    SortByCreatedAtDescending(SimplifiedRecords(cleaned_data))

\* number of process_pipeline calls a run makes on its input file
MaxRuns == 2

\* the positions at which a process_pipeline call has ended: the cleaning
\* returned a cleaned_count of 0 and the conversion was skipped, or the
\* conversion returned
PipelineEnded ==
    \/ pc \in {"pipeline_returned", "pipeline_write_failed"}
    \/ pc = "pipeline_saved" /\ returned[1][2] = 0
    \/ pc \in {"pipeline_converted", "pipeline_convert_failed"}

S_Al_padded == SP \o S_Al \o SP

\* raw chats whose first message times are absent, equal, distinct or
\* unparsable, with a chat that has no customer, a rejected one and an
\* element that is not an object
ConvertInputs ==
    { RawChat(ValidCustomerUsers, <<>>, "top"),
      RawChat(ValidCustomerUsers, CustomerMessageEvents, "top"),
      RawChat(ValidCustomerUsers,
              << Event("message", "c1", S_hi, RawInstant(1000, "naive")),
                 Event("message", "a1", S_hi, RawInstant(2000, "Z")) >>, "top"),
      RawChat(<<Customer("c1", S_Al_padded, S_a_b_co, <<>>)>>,
              << Event("message", "c1", S_hi, RawInstant(5000, "Z")) >>, "top"),
      RawChat(ValidCustomerUsers, << Event("message", "c1", S_hi, RawBad(1)) >>, "top"),
      RawChat(<<Agent1>>, CustomerMessageEvents, "top"),
      RawChat(<<Customer("c1", S_Al, <<>>, <<>>)>>, CustomerMessageEvents, "top"),
      NotAChat }

ProcessPipelineFiles(m) ==
    {File("ok", a) : a \in RawArrays(ConvertInputs, m)} \cup FailedFiles

InitProcessPipeline == InitPipelineCleanOn(ProcessPipelineFiles(MaxChats))

\* the conversion called whatever count the cleaning step reported
PipelineConvert_Always ==
    /\ pc = "pipeline_saved"
    /\ \/ /\ pc' = "pipeline_converted"
          /\ simplified_file' = <<convert_to_simplified_format(output_file[1])>>
          /\ convert_returned' = <<Len(output_file[1])>>
       \/ /\ pc' = "pipeline_convert_failed"
          /\ simplified_file' = simplified_file
          /\ convert_returned' = <<0>>
    /\ UNCHANGED <<cleanVars, completed_runs>>
    /\ UNCHANGED <<validityVars, timingVars, trafficVars, analysisVars, workflowVars>>

\* convert_to_simplified_format, called when cleaned_count is not 0: it
\* reads the cleaned file, builds and sorts the records and writes them, or
\* returns 0 when the read or the write fails
PipelineConvert ==
    /\ pc = "pipeline_saved"
    /\ returned[1][2] # 0
    /\ \/ /\ pc' = "pipeline_converted"
          /\ simplified_file' = <<convert_to_simplified_format(output_file[1])>>
          /\ convert_returned' = <<Len(output_file[1])>>
       \/ /\ pc' = "pipeline_convert_failed"
          /\ simplified_file' = simplified_file
          /\ convert_returned' = <<0>>
    /\ UNCHANGED <<cleanVars, completed_runs>>
    /\ UNCHANGED <<validityVars, timingVars, trafficVars, analysisVars, workflowVars>>

\* a further call that finds the list of the previous call still filled
ProcessPipelineAgain_KeepsCleaned ==
    /\ PipelineEnded
    /\ Len(completed_runs) + 1 < MaxRuns
    /\ completed_runs' = Append(completed_runs,
                                [pc |-> pc, cleaned_file |-> output_file,
                                 simplified_file |-> simplified_file])
    /\ pc' = "pipeline_open"
    /\ data' = <<>>
    /\ index' = 0
    /\ validity_calls' = <<>>
    /\ returned' = <<>>
    /\ convert_returned' = <<>>
    /\ UNCHANGED <<input_file, cleaned_chats, output_file, simplified_file>>
    /\ UNCHANGED <<validityVars, timingVars, trafficVars, analysisVars, workflowVars>>

\* process_pipeline called once more with the same input file and month:
\* the previous call's outcome is noted, the files stay on disk and every
\* local of clean_chat_data and convert_to_simplified_format starts afresh
ProcessPipelineAgain ==
    /\ PipelineEnded
    /\ Len(completed_runs) + 1 < MaxRuns
    /\ completed_runs' = Append(completed_runs,
                                [pc |-> pc, cleaned_file |-> output_file,
                                 simplified_file |-> simplified_file])
    /\ pc' = "pipeline_open"
    /\ data' = <<>>
    /\ index' = 0
    /\ cleaned_chats' = <<>>
    /\ validity_calls' = <<>>
    /\ returned' = <<>>
    /\ convert_returned' = <<>>
    /\ UNCHANGED <<input_file, output_file, simplified_file>>
    /\ UNCHANGED <<validityVars, timingVars, trafficVars, analysisVars, workflowVars>>

NextProcessPipeline == NextPipelineClean \/ PipelineConvert \/ ProcessPipelineAgain

SpecProcessPipeline == InitProcessPipeline /\ [][NextProcessPipeline]_vars

(***************************************************************************)
(* run_analysis_workflow.main                                              *)
(*                                                                         *)
(* main names a fresh intermediate file, has clean_chat_data write it, has *)
(* run_analysis_process read it and leaves through sys.exit.  The          *)
(* intermediate file on disk is "absent", "empty" (it exists with size 0), *)
(* "partial" (some bytes, not a JSON document) or "written".               *)
(***************************************************************************)
\* raw chats of the workflow runs: a customer message with a reply, a chat
\* with no customer message, a customer message whose created_at is a
\* number, and an element that is not an object
WorkflowInputs ==
    { RawChat(ValidCustomerUsers,
              << Event("message", "c1", S_hi, RawInstant(1000, "Z")),
                 Event("message", "a1", S_hi, RawInstant(3000, "Z")) >>, "thread"),
      RawChat(<<Agent1>>, << Event("message", "a1", S_hi, RawInstant(2000, "Z")) >>,
              "thread"),
      RawChat(ValidCustomerUsers, << Event("message", "c1", S_hi, RawNumber) >>,
              "thread"),
      NotAChat }

WorkflowFiles(m) ==
    {File("ok", a) : a \in RawArrays(WorkflowInputs, m)} \cup FailedFiles

InitWorkflow ==
    /\ pc = "customer_only_open"
    /\ input_file \in WorkflowFiles(MaxChats)
    /\ data = <<>>
    /\ index = 0
    /\ cleaned_chats = <<>>
    /\ output_file = <<>>
    /\ validity_calls = <<>>
    /\ returned = <<>>
    /\ cleaned_input_file = File("ok", <<>>)
    /\ client_instance \in {"none", "client"}
    /\ limit \in {None, 1}
    /\ service_calls = <<>>
    /\ chats_to_process = <<>>
    /\ chat_index = 0
    /\ analyzed_results = <<>>
    /\ successful_api_calls = 0
    /\ skipped_api_calls = 0
    /\ final_output_file_excel = <<>>
    /\ analysis_returned = <<>>
    /\ IdleValidity
    /\ IdleTiming
    /\ IdleTraffic
    /\ IdleConvert
    /\ IdleWorkflow

\* what clean_chat_data can leave under the intermediate name: nothing when
\* it returned before the write; the document when the write succeeded;
\* when the write failed, nothing (open failed), a file of size 0 (nothing
\* reached the disk) or the first part of the document
LeftByCleaning ==
    IF pc = "customer_only_returned" THEN {"absent"}
    ELSE IF pc = "customer_only_saved" THEN {"written"}
    ELSE {"absent", "empty", "partial"}

\* the except branch of step 1: clean_chat_data raised, which it only does
\* before it opens the output file; sys.exit(1)
WorkflowCleaningRaised ==
    /\ pc = "customer_only_raised"
    /\ pc' = "workflow_exited"
    /\ exit_status' = <<1>>
    /\ UNCHANGED <<intermediate_file, remove_failed>>
    /\ UNCHANGED <<validityVars, timingVars, cleanVars, convertVars, trafficVars,
                   analysisVars>>

\* clean_chat_data returned: main leaves with sys.exit(1) when the
\* intermediate file does not exist or has size 0, and otherwise hands it
\* to run_analysis_process
WorkflowCheckIntermediate ==
    /\ pc \in {"customer_only_returned", "customer_only_saved",
               "customer_only_write_failed"}
    /\ \E left \in LeftByCleaning :
           /\ intermediate_file' = left
           /\ IF left \in {"absent", "empty"}
              THEN /\ pc' = "workflow_exited"
                   /\ exit_status' = <<1>>
                   /\ UNCHANGED cleaned_input_file
              ELSE /\ pc' = "analysis_open"
                   /\ cleaned_input_file' =
                          IF left = "written" THEN File("ok", output_file[1])
                          ELSE File("invalid_json", <<>>)
                   /\ UNCHANGED exit_status
    /\ UNCHANGED <<remove_failed, client_instance, limit, service_calls,
                   chats_to_process, chat_index, analyzed_results,
                   successful_api_calls, skipped_api_calls,
                   final_output_file_excel, analysis_returned>>
    /\ UNCHANGED <<validityVars, timingVars, cleanVars, convertVars, trafficVars>>

\* the except branch of step 2 and the finally clause: the file is removed
\* unless os.remove fails; sys.exit(1)
WorkflowAnalysisRaised ==
    /\ pc = "analysis_raised"
    /\ pc' = "workflow_exited"
    /\ exit_status' = <<1>>
    /\ \E removed \in BOOLEAN :
           /\ intermediate_file' = IF removed THEN "absent" ELSE intermediate_file
           /\ remove_failed' = ~removed
    /\ UNCHANGED <<validityVars, timingVars, cleanVars, convertVars, trafficVars,
                   analysisVars>>

\* run_analysis_process returned: a warning when its list is empty, the
\* finally clause removes the file unless os.remove fails; sys.exit(0)
WorkflowFinish ==
    /\ pc = "analysis_returned"
    /\ pc' = "workflow_exited"
    /\ exit_status' = <<0>>
    /\ \E removed \in BOOLEAN :
           /\ intermediate_file' = IF removed THEN "absent" ELSE intermediate_file
           /\ remove_failed' = ~removed
    /\ UNCHANGED <<validityVars, timingVars, cleanVars, convertVars, trafficVars,
                   analysisVars>>

NextWorkflow ==
    \/ NextCustomerOnly
    \/ WorkflowCleaningRaised
    \/ WorkflowCheckIntermediate
    \/ NextAnalysis
    \/ WorkflowAnalysisRaised
    \/ WorkflowFinish

SpecWorkflow == InitWorkflow /\ [][NextWorkflow]_vars

(***************************************************************************)
(* Properties of the cleaners                                              *)
(***************************************************************************)
\* the records written to the output file, if it has been written
Written == IF output_file = <<>> THEN <<>> ELSE output_file[1]

\* the raw chat has a customer participant with an id, and an event authored
\* by that customer that is a text-bearing, non-system, non-form event
HasCustomerMessage(chat, events) ==
    \E u \in 1..Len(chat.users) :
        /\ chat.users[u].type = "customer"
        /\ chat.users[u].id # ""
        /\ \E e \in 1..Len(events) :
               /\ events[e].author_id = chat.users[u].id
               /\ events[e].type \notin {"system_message", "form"}
               /\ Strip(events[e].text) # <<>>

\* C7: every conversation clean_chat_data.py writes has a non-empty message
\* list with at least one Customer message; a record with no customer
\* participant, no customer id, or only agent, system or form events is
\* never written.
C7_CustomerMessageRequired ==
    pc \in {"customer_only_loop", "customer_only_saved"}
    => /\ \A k \in 1..Len(Written) :
              /\ Written[k].messages # <<>>
              /\ \E m \in 1..Len(Written[k].messages) :
                     Written[k].messages[m].sender = "Customer"
       /\ \A d \in 1..Len(data) :
              ~HasCustomerMessage(data[d], data[d].thread.events)
              => \A k \in 1..Len(Written) : Written[k].chat_id # data[d].id

\* a file written with one record kept and one agent-only record dropped
C7_Witness ==
    /\ pc = "customer_only_saved"
    /\ Len(data) = 2
    /\ Len(Written) = 1
    /\ \E d \in 1..2 :
           /\ ~HasCustomerMessage(data[d], data[d].thread.events)
           /\ BuildMessages(data[d].thread.events, "") # <<>>

\* C8 as claimed: ChatDataProcessor.clean_chat_data never retains a
\* conversation whose derived message list is empty.
C8_NoEmptyConversation ==
    pc \in {"pipeline_loop", "pipeline_saved"}
    => \A k \in 1..Len(cleaned_chats) : cleaned_chats[k].messages # <<>>

(***************************************************************************)
(* Properties of contact extraction                                        *)
(***************************************************************************)
\* the raw chat a cleaned record was built from (ids are array positions)
RawOf(rec) == data[rec.chat_id]

\* the first customer participant of a raw chat
CustomerOf(chat) == FirstCustomer(chat.users, NoUser)

\* the values of the session annotations whose key passes `test`, in order
RECURSIVE AnnotationValues(_, _)
AnnotationValues(fields, what) ==
    IF fields = <<>> THEN <<>>
    ELSE LET f == Head(fields)
             hit == IF what = "email" THEN Contains(Lower(f.key), S_email)
                    ELSE Lower(f.key) \in PhoneKeys
         IN  (IF hit THEN <<f.value>> ELSE <<>>)
                 \o AnnotationValues(Tail(fields), what)

\* the answers of the pre-chat fields that name the email or the phone
RECURSIVE PrechatAnswers(_, _)
PrechatAnswers(fields, what) ==
    IF fields = <<>> THEN <<>>
    ELSE LET f == Head(fields)
             hit == IF what = "email"
                    THEN f.name # S_Phone_Number /\ Contains(Lower(f.name), S_email)
                    ELSE f.name = S_Phone_Number
         IN  (IF hit THEN <<f.answer>> ELSE <<>>)
                 \o PrechatAnswers(Tail(fields), what)

\* what the form events offer, in event order, form_data before fields
RECURSIVE FormValues(_, _)
FormValues(events, what) ==
    IF events = <<>> THEN <<>>
    ELSE LET e == Head(events)
         IN  (IF e.type = "form"
              THEN <<e.form_data[what]>>
                       \o (IF e.form_type = "prechat"
                           THEN PrechatAnswers(e.fields, what) ELSE <<>>)
              ELSE <<>>)
                 \o FormValues(Tail(events), what)

\* every place a contact field can come from, in order of precedence
ContactSources(chat, what) ==
    <<CustomerOf(chat)[what]>>
        \o AnnotationValues(CustomerOf(chat).session_fields, what)
        \o FormValues(chat.events, what)

\* the first non-empty value of a list, or '' when there is none
FirstNonEmpty(values) ==
    IF \E k \in 1..Len(values) : values[k] # <<>>
    THEN values[CHOOSE k \in 1..Len(values) :
                    /\ values[k] # <<>>
                    /\ \A j \in 1..(k - 1) : values[j] = <<>>]
    ELSE <<>>

\* C11: the email and the phone of every record ChatDataProcessor
\* .clean_chat_data retains are the first non-empty value in the order
\* participant fields, session annotations in list order, form events in
\* event order with form_data before the pre-chat fields; a later source
\* never replaces a value already found.
C11_FirstSourceWins ==
    pc \in {"pipeline_loop", "pipeline_saved"}
    => \A k \in 1..Len(cleaned_chats) :
           LET rec == cleaned_chats[k]
           IN  /\ rec.customer.email = FirstNonEmpty(ContactSources(RawOf(rec), "email"))
               /\ rec.customer.phone = FirstNonEmpty(ContactSources(RawOf(rec), "phone"))

\* the non-empty values among the sources
Filled(values) == SelectSeq(values, LAMBDA v : v # <<>>)

\* a written record whose email was offered by three places with three
\* values and whose phone came from a form after an empty participant field
C11_Witness ==
    /\ pc = "pipeline_saved"
    /\ Len(Written) = 1
    /\ Len(Filled(ContactSources(data[1], "email"))) >= 3
    /\ CustomerOf(data[1]).email # <<>>
    /\ CustomerOf(data[1]).phone = <<>>
    /\ AnnotationValues(CustomerOf(data[1]).session_fields, "phone") = <<>>
    /\ Len(Filled(FormValues(data[1].events, "phone"))) >= 2
    /\ Written[1].customer.phone = Tel("3")

\* the raw chat has no participant of type 'customer'
NoCustomer(chat) == \A u \in 1..Len(chat.users) : chat.users[u].type # "customer"

\* the elements of a list
Range(f) == {f[k] : k \in 1..Len(f)}

\* C12: ChatDataProcessor.clean_chat_data skips a raw conversation with no
\* participant of type 'customer': the validity classifier is not called on
\* it, it is not in the cleaned output, and every record after it that has
\* a customer is still classified by the time the output is written.
C12_NoCustomerSkipped ==
    pc \in {"pipeline_loop", "pipeline_saved"}
    => \A d \in 1..Len(data) :
           IF NoCustomer(data[d])
           THEN /\ d \notin Range(validity_calls)
                /\ \A k \in 1..Len(cleaned_chats) : cleaned_chats[k].chat_id # d
                /\ \A k \in 1..Len(Written) : Written[k].chat_id # d
           ELSE pc = "pipeline_saved" => d \in Range(validity_calls)

\* a written output where the first record had no customer but a form with
\* a usable phone, and the record after it was classified and retained
C12_Witness ==
    /\ pc = "pipeline_saved"
    /\ Len(data) = 2
    /\ NoCustomer(data[1])
    /\ FirstNonEmpty(FormValues(data[1].events, "phone")) = S_12345
    /\ validity_calls = <<2>>
    /\ Len(Written) = 1
    /\ Written[1].chat_id = 2

\* no part of the record is malformed
WellFormed(chat) ==
    /\ chat.object
    /\ \A u \in 1..Len(chat.users) :
           /\ chat.users[u].object
           /\ NotAString \notin {chat.users[u].name, chat.users[u].email, chat.users[u].phone}
           /\ NotAPage \notin Range(chat.users[u].visit.last_pages)

\* C13 as claimed: a malformed element of the input array never aborts
\* ChatDataProcessor.clean_chat_data: the loop is not left by an exception,
\* and once the output is written it holds every well-formed record of the
\* input that the validity classifier accepts.
C13_MalformedNeverAborts ==
    /\ pc # "pipeline_raised"
    /\ pc = "pipeline_saved"
       => \A d \in 1..Len(data) :
              WellFormed(data[d]) /\ PipelineCleanOne(data[d]) # <<>>
              => \E k \in 1..Len(Written) : Written[k].chat_id = d

(***************************************************************************)
(* Properties of the batch entry points                                    *)
(***************************************************************************)
\* C14: when the input file is missing or is not valid JSON,
\* run_analysis_process returns [] with no chat processed and no report
\* written, ChatDataProcessor.clean_chat_data returns (0, 0) and
\* clean_chat_data (clean_chat_data.py) returns, neither with an output file.
C14_InputFailureHalts ==
    /\ pc # "analysis_open" /\ cleaned_input_file.status # "ok"
       => /\ pc = "analysis_returned"
          /\ analysis_returned = << <<>> >>
          /\ chat_index = 0
          /\ analyzed_results = <<>>
          /\ service_calls = <<>>
          /\ final_output_file_excel = <<>>
    /\ pc # "pipeline_open" /\ pc # "customer_only_open" /\ input_file.status # "ok"
       => /\ pc \in {"pipeline_returned", "customer_only_returned"}
          /\ returned = IF pc = "pipeline_returned" THEN << <<0, 0>> >> ELSE <<None>>
          /\ index = 0
          /\ cleaned_chats = <<>>
          /\ validity_calls = <<>>
          /\ output_file = <<>>

\* run_analysis_process has returned on a cleaned file that is not JSON
C14_Witness ==
    /\ pc = "analysis_returned"
    /\ cleaned_input_file.status = "invalid_json"
    /\ client_instance = "client"
    /\ analysis_returned = << <<>> >>

\* the report could not be written: the function is past the write and
\* there is no report
WriteFailed ==
    /\ pc = "analysis_returned"
    /\ cleaned_input_file.status = "ok"
    /\ final_output_file_excel = <<>>

\* the service call made for the chat with this id, as a list of 0 or 1 calls
CallsFor(id) == SelectSeq(service_calls, LAMBDA c : c.chat_id = id)

\* the result record the loop builds for a chat, given what the service did
ExpectedResult(chat) ==
    IF chat.messages = <<>> THEN NoMessagesResult(chat)
    ELSE ChatAnalysis(chat, calculate_timing_metrics(chat.messages),
                      analyze_chat_with_gemini(client_instance,
                                               CallsFor(chat.chat_id)[1].response))

\* C15: when the Excel report cannot be written, run_analysis_process still
\* returns the complete list of results: one record per processed chat, in
\* order, each the record the loop computed for that chat.
C15_WriteFailureReturnsResults ==
    WriteFailed
    => /\ analysis_returned = <<analyzed_results>>
       /\ Len(analysis_returned[1]) = Len(chats_to_process)
       /\ \A k \in 1..Len(chats_to_process) :
              analysis_returned[1][k] = ExpectedResult(chats_to_process[k])

\* a failed write after two chats were analyzed, one of them by the service
C15_Witness ==
    /\ WriteFailed
    /\ Len(analysis_returned[1]) = 2
    /\ successful_api_calls = 1
    /\ skipped_api_calls = 1

\* the service failed: no client, an exception, a blocked prompt, empty
\* text, or text that does not parse to a JSON object
OutcomeIsError(response) ==
    \/ response.outcome \in {"no_client", "exception", "blocked"}
    \/ response.text \in {"empty", "non_json", "not_dict"}

\* what C16 says of every processed chat with messages, but for the error
\* marker: one record, one service call, timing fields of the analyzer
OneRecordOwnTiming(k) ==
    LET chat == chats_to_process[k]
        rec == analyzed_results[k]
        timing_metrics == calculate_timing_metrics(chat.messages)
    IN  /\ rec.chat_id = chat.chat_id
        /\ Len(CallsFor(chat.chat_id)) = 1
        /\ rec.response_time_seconds = timing_metrics.response_time_seconds
        /\ rec.is_qualified = timing_metrics.is_qualified

\* the positions of the processed chats that have messages
ProcessedWithMessages == {k \in 1..chat_index : chats_to_process[k].messages # <<>>}

\* C16 as claimed: every processed chat with messages has exactly one
\* result record whatever the service did, with the latency and the
\* qualification of calculate_timing_metrics, and the record carries the
\* error marker exactly when the service outcome was an error.
C16_Original ==
    pc \in {"analysis_loop", "analysis_returned"} /\ cleaned_input_file.status = "ok"
    => /\ Len(analyzed_results) = chat_index
       /\ \A k \in ProcessedWithMessages :
              /\ OneRecordOwnTiming(k)
              /\ analyzed_results[k].api_error
                 <=> OutcomeIsError(CallsFor(chats_to_process[k].chat_id)[1].response)

\* C16 amended: as above, but the record carries the error marker exactly
\* when the service outcome was an error or the JSON object the service
\* returned has itself a key 'API分析错误'.
C16_Amended ==
    pc \in {"analysis_loop", "analysis_returned"} /\ cleaned_input_file.status = "ok"
    => /\ Len(analyzed_results) = chat_index
       /\ \A k \in ProcessedWithMessages :
              LET response == CallsFor(chats_to_process[k].chat_id)[1].response
              IN  /\ OneRecordOwnTiming(k)
                  /\ analyzed_results[k].api_error
                     <=> (OutcomeIsError(response) \/ K_error \in response.keys)

\* two chats analyzed: the service answered the first with an object that
\* carries its own latency and qualification, and failed on the second
C16_Witness ==
    /\ pc = "analysis_returned"
    /\ Len(analyzed_results) = 2
    /\ Len(service_calls) = 2
    /\ service_calls[1].response = Response("text", "dict", {K_response_time, K_is_qualified})
    /\ service_calls[2].response.outcome = "exception"
    /\ analyzed_results[1].is_qualified = "Unqualified"
    /\ ~analyzed_results[1].api_error
    /\ analyzed_results[2].api_error

(***************************************************************************)
(* Properties of the time normalizer                                       *)
(***************************************************************************)
\* the events the running cleaner reads from a raw chat
CleanerEvents(chat) ==
    IF pc \in {"pipeline_loop", "pipeline_saved"} THEN chat.events
    ELSE chat.thread.events

\* the events that become messages: not system or form events, text not blank
TextEvents(chat) ==
    SelectSeq(CleanerEvents(chat),
              LAMBDA e : e.type \notin {"system_message", "form"} /\ Strip(e.text) # <<>>)

\* the string a timestamp was given as, when it does not parse
Original(created_at) == [kind |-> "bad", t |-> created_at.wall, aware |-> FALSE]

\* C17: the time normalizer of both cleaners fails soft.  Every text-bearing
\* event of a retained record is kept as a message whatever its timestamp:
\* an empty timestamp gives '', an unparsable one the original string; and
\* a cleaner's loop is only ever left by an exception on a malformed record.
C17_FailSoft ==
    /\ pc \in {"pipeline_loop", "pipeline_saved", "customer_only_loop", "customer_only_saved"}
       => \A k \in 1..Len(cleaned_chats) :
              LET rec == cleaned_chats[k]
                  evs == TextEvents(RawOf(rec))
              IN  /\ Len(rec.messages) = Len(evs)
                  /\ \A m \in 1..Len(evs) :
                         /\ evs[m].created_at.kind = "empty"
                            => rec.messages[m].time = EmptyTime
                         /\ evs[m].created_at.kind = "bad"
                            => rec.messages[m].time = Original(evs[m].created_at)
    /\ pc \in {"pipeline_raised", "customer_only_raised"} => ~WellFormed(data[index + 1])

\* clean_chat_data.py has written a record with three messages, the second
\* with an unparsable and the third with an empty timestamp
C17_Witness ==
    /\ pc = "customer_only_saved"
    /\ Len(Written) = 1
    /\ Len(Written[1].messages) = 3
    /\ Written[1].messages[2].time.kind = "bad"
    /\ Written[1].messages[3].time = EmptyTime

\* the instant a parsed timestamp names, in milliseconds UTC
UtcInstant(created_at) ==
    created_at.wall - (IF created_at.zone = "+08:00" THEN 28800000 ELSE 0)

\* C18: a parsed timestamp without zone is read as UTC and every parsed
\* instant is shown as UTC+8 wall-clock time to the second, so two
\* timestamps of one record normalize to the same string when they name the
\* same instant, whether with 'Z', without zone, or with another offset.
C18_SameInstantSameString ==
    pc \in {"pipeline_loop", "pipeline_saved", "customer_only_loop", "customer_only_saved"}
    => \A k \in 1..Len(cleaned_chats) :
           LET rec == cleaned_chats[k]
               evs == TextEvents(RawOf(rec))
               parsed == {m \in 1..Len(evs) : evs[m].created_at.kind = "ok"}
           IN  /\ \A m \in parsed :
                      LET shown == UtcInstant(evs[m].created_at) + HKT
                      IN  rec.messages[m].time = Instant(shown - (shown % 1000), FALSE)
               /\ \A m, n \in parsed :
                      UtcInstant(evs[m].created_at) = UtcInstant(evs[n].created_at)
                      => rec.messages[m].time = rec.messages[n].time

\* a record written by ChatDataProcessor whose three messages were stamped
\* with 'Z', without zone and with +08:00, and carry one time
C18_Witness ==
    /\ pc = "pipeline_saved"
    /\ Len(Written) = 1
    /\ LET evs == TextEvents(data[1])
       IN  /\ Len(evs) = 3
           /\ {evs[m].created_at.zone : m \in 1..3} = {"Z", "naive", "+08:00"}
           /\ \A m \in 1..3 : Written[1].messages[m].time = Instant(28801000, FALSE)

(***************************************************************************)
(* Properties of the channel attributor                                    *)
(***************************************************************************)
\* the lowercased referrer and start_url, joined
Combined == Lower(traffic_referrer \o <<" ">> \o traffic_start_url)

Paid == EndsWith(label, S__paid)

HasParam(name) == Contains(Combined, name)

HasParamEq(name) == Contains(Combined, name \o <<"=">>)

\* C9 as claimed: the paid flag is true if and only if the lowercased
\* concatenation contains 'gclid=', 'gad_source=', 'gad_campaignid=',
\* 'gbraid=' or 'wbraid=', or both 'utm_source=google' and 'utm_medium=cpc',
\* or 'fbclid=' or 'utm_source=fb', or 'utm_campaign='.
C9_Original ==
    pc = "labelled"
    => (Paid <=>
            \/ \E n \in {S_gclid, S_gad_source, S_gad_campaignid, S_gbraid, S_wbraid} :
                   HasParamEq(n)
            \/ (HasParam(S_utm_source_google) /\ HasParam(S_utm_medium_cpc))
            \/ HasParamEq(S_fbclid)
            \/ HasParam(S_utm_source_fb)
            \/ HasParamEq(S_utm_campaign))

\* C9 (amended): the paid flag is true if and only if the lowercased
\* concatenation contains one of the names 'gclid', 'gad_source',
\* 'gad_campaignid', 'gbraid', 'wbraid' (followed by '=' or not), or both
\* 'utm_source=google' and 'utm_medium=cpc', or 'fbclid' or 'utm_source=fb',
\* or 'utm_campaign'. It does not depend on the base channel, and
\* 'utm_source=google' or 'utm_medium=cpc' alone does not make traffic paid.
C9_Amended ==
    pc = "labelled"
    => (Paid <=>
            \/ \E n \in {S_gclid, S_gad_source, S_gad_campaignid, S_gbraid, S_wbraid} :
                   HasParam(n)
            \/ (HasParam(S_utm_source_google) /\ HasParam(S_utm_medium_cpc))
            \/ HasParam(S_fbclid)
            \/ HasParam(S_utm_source_fb)
            \/ HasParam(S_utm_campaign))

\* a landing URL that names gclid without '=' and is labelled paid
C9_Witness ==
    /\ pc = "labelled"
    /\ HasParam(S_gclid)
    /\ ~HasParamEq(S_gclid)
    /\ traffic_referrer # <<>>
    /\ Paid

\* the ordered platform table of the base channel
PlatformTable ==
    << [needles |-> {S_google}, channel |-> S_google],
       [needles |-> {S_youtube, S_youtu_be}, channel |-> S_youtube],
       [needles |-> {S_facebook, S_fb_com}, channel |-> S_facebook],
       [needles |-> {S_instagram}, channel |-> S_instagram],
       [needles |-> {S_bing}, channel |-> S_bing],
       [needles |-> {S_yandex}, channel |-> S_yandex],
       [needles |-> {S_vertu_com}, channel |-> S_website_internal] >>

\* rows of the table the referrer matches
Matches(ref) ==
    {i \in 1..Len(PlatformTable) :
        \E n \in PlatformTable[i].needles : Contains(Lower(ref), n)}

\* website_<domain without www>
WebsiteOf(ref) == S_website_ \o RemoveAll(Lower(Netloc(ref)), S_www_dot)

\* the base channel by first match, without a fallback for unparsable referrers
FirstMatch(ref) ==
    IF ref = <<>> THEN S_direct
    ELSE IF Matches(ref) # {}
         THEN PlatformTable[CHOOSE i \in Matches(ref) : \A j \in Matches(ref) : i <= j].channel
         ELSE WebsiteOf(ref)

\* the examples of C10
ChannelExamples ==
    /\ (traffic_referrer = <<>> /\ HasParam(S_utm_source_fb))
           => label = S_direct \o S__paid
    /\ (traffic_referrer = <<"h","t","t","p","s",":","/","/","w","w","w",".","g","o","o","g","l","e",".","c","o","m","/">> /\ HasParamEq(S_gclid))
           => label = S_google \o S__paid
    /\ (traffic_referrer = <<"h","t","t","p","s",":","/","/","w","w","w",".","g","o","o","g","l","e",".","c","o","m","/">>
            /\ traffic_start_url = <<"h","t","t","p","s",":","/","/","x",".","c","o","/">>)
           => label = S_google \o S__organic

\* C10 as claimed: the base channel depends on the referrer only and is the
\* first match in the order direct, google, youtube, facebook, instagram,
\* bing, yandex, website_internal, otherwise website_<domain without www>;
\* the label is the base channel suffixed with _paid or _organic.
C10_Original ==
    pc = "labelled"
    => /\ label \in {FirstMatch(traffic_referrer) \o S__paid,
                     FirstMatch(traffic_referrer) \o S__organic}
       /\ ChannelExamples

\* C10 (amended): as claimed, except that a referrer matching no platform
\* which urlparse rejects (an unmatched bracket in its authority) gets the
\* base channel 'other' instead of website_<domain>.
C10_Amended ==
    pc = "labelled"
    => /\ LET base == IF /\ traffic_referrer # <<>>
                         /\ Matches(traffic_referrer) = {}
                         /\ UrlParseRaises(traffic_referrer)
                      THEN S_other
                      ELSE FirstMatch(traffic_referrer)
          IN  label \in {base \o S__paid, base \o S__organic}
       /\ ChannelExamples

\* a referrer naming both google and youtube is attributed to google
C10_Witness ==
    /\ pc = "labelled"
    /\ Contains(Lower(traffic_referrer), S_google)
    /\ Contains(Lower(traffic_referrer), S_youtube)
    /\ label = S_google \o S__organic

(***************************************************************************)
(* Properties of the conversion and of process_pipeline                    *)
(***************************************************************************)
\* the list s taken in the order p
Reordered(s, p) == [k \in 1..Len(s) |-> s[p[k]]]

\* C19: the simplified output is the same list for every order in which the
\* cleaned records are presented, records with equal or empty creation
\* times included
C19_OrderIndependent ==
    pc = "pipeline_converted" =>
        \A p \in Permutations(1..Len(output_file[1])) :
            convert_to_simplified_format(Reordered(output_file[1], p)) = simplified_file[1]

\* the output is in descending order of created_at
Descending(records) ==
    \A k \in 1..(Len(records) - 1) :
        ~StringLess(records[k].created_at, records[k + 1].created_at)

\* what does hold of the conversion: the output is one record per cleaned
\* record, in descending order of created_at, and records whose created_at
\* are equal stand in the order of the cleaned file
C19_DescendingStable ==
    pc = "pipeline_converted" =>
        LET out == simplified_file[1]
        IN  /\ Len(out) = Len(output_file[1])
            /\ \A chat \in Range(output_file[1]) : SimplifiedRecord(chat) \in Range(out)
            /\ Descending(out)
            /\ \A k \in 1..(Len(out) - 1) :
                   out[k].created_at = out[k + 1].created_at => out[k].id < out[k + 1].id

\* two cleaned records with the same created_at have been converted
C19_TieConverted ==
    /\ pc = "pipeline_converted"
    /\ \E k \in 1..(Len(simplified_file[1]) - 1) :
           simplified_file[1][k].created_at = simplified_file[1][k + 1].created_at

\* a process_pipeline call that ended here read and wrote every file it
\* meant to
NoIoFailure(position) == position \in {"pipeline_saved", "pipeline_converted"}

RECURSIVE CleanedAlone(_)
\* the records the chats of an array yield when each is cleaned on its own
CleanedAlone(chats) ==
    IF chats = <<>> THEN <<>>
    ELSE PipelineCleanOne(Head(chats)) \o CleanedAlone(Tail(chats))

\* C20: a second clean-then-convert on the same raw array leaves the same
\* cleaned and simplified arrays as the first, and within a call each
\* retained record is what its own chat yields, whatever preceded it
C20_Idempotent ==
    (PipelineEnded /\ NoIoFailure(pc)) =>
        /\ output_file = <<CleanedAlone(input_file.content)>>
        /\ \A r \in 1..Len(completed_runs) :
               NoIoFailure(completed_runs[r].pc) =>
                   /\ completed_runs[r].cleaned_file = output_file
                   /\ completed_runs[r].simplified_file = simplified_file

\* two calls have cleaned and converted an array that yields two records
C20_Witness ==
    /\ pc = "pipeline_converted"
    /\ completed_runs # <<>>
    /\ completed_runs[1].pc = "pipeline_converted"
    /\ Len(simplified_file[1]) >= 2

(***************************************************************************)
(* Properties of the scan of calculate_timing_metrics                      *)
(***************************************************************************)
\* the position of the first qualifying reply
FirstReplyPosition(msgs) ==
    CHOOSE j \in QualifyingReplies(msgs) : \A k \in QualifyingReplies(msgs) : j <= k

\* the list without the messages at the positions of gone
Without(msgs, gone) ==
    LET kept == {i \in 1..Len(msgs) : i \notin gone}
        Nth(k) == CHOOSE i \in kept : Cardinality({j \in kept : j < i}) = k - 1
    IN  [k \in 1..Cardinality(kept) |-> msgs[Nth(k)]]

\* the latency and the qualification of a result
Latency(result) == <<result.response_time_seconds, result.is_qualified>>

\* the positions the scan does not depend on: the agent messages before the
\* first customer message, and every message after the first qualifying reply
Ignored(msgs) ==
    IF CustomerPositions(msgs) = {} THEN {}
    ELSE {i \in 1..(FirstCustomerPosition(msgs) - 1) : msgs[i].sender = "Agent"}
             \cup (IF QualifyingReplies(msgs) = {} THEN {}
                   ELSE (FirstReplyPosition(msgs) + 1)..Len(msgs))

Untimed(msgs) == {i \in 1..Len(msgs) : msgs[i].time.kind # "ok"}

\* C22: a message whose timestamp is empty or unparsable never makes
\* calculate_timing_metrics fail, and the latency and qualification returned
\* are those of the list without these messages.
C22_UntimedAsAbsent ==
    pc \in {"timed", "timing_raised"} =>
        /\ pc = "timed"
        /\ Latency(timing)
               = Latency(calculate_timing_metrics(Without(messages, Untimed(messages))))

\* what does hold: a message whose 'time' is the empty string or a string
\* that does not parse is treated as absent
C22_UntimedStringsAsAbsent ==
    pc = "timed" =>
        Latency(timing)
            = Latency(calculate_timing_metrics(Without(messages, Untimed(messages))))

(***************************************************************************)
(* Properties of the message list                                          *)
(***************************************************************************)
\* the text has a character that is not white space
NonBlank(text) == \E k \in 1..Len(text) : ~IsSpace(text[k])

\* the positions of the events that bear text and are no system or form event
MessagePositions(events) ==
    {e \in 1..Len(events) :
         events[e].type \notin {"system_message", "form"} /\ NonBlank(events[e].text)}

\* the position of the k-th such event
NthMessagePosition(events, k) ==
    CHOOSE e \in MessagePositions(events) :
        Cardinality({f \in MessagePositions(events) : f < e}) = k - 1

\* C23: the message list of every record a cleaner retains is its event
\* stream filtered to the events that are neither system_message nor form
\* and whose text is not blank, one message per such event and in the order
\* of the events; each content is the trimmed text, and the sender is
\* Customer exactly when the customer id is present and is the event's
\* author_id, Agent otherwise.
C23_MessagesAreFilteredEvents ==
    pc \in {"pipeline_loop", "pipeline_saved", "customer_only_loop", "customer_only_saved"}
    => \A r \in 1..Len(cleaned_chats) :
           LET rec == cleaned_chats[r]
               events == CleanerEvents(RawOf(rec))
               customer_id == CustomerOf(RawOf(rec)).id
           IN  /\ Len(rec.messages) = Cardinality(MessagePositions(events))
               /\ \A k \in 1..Len(rec.messages) :
                      LET event == events[NthMessagePosition(events, k)]
                      IN  /\ rec.messages[k].content = Strip(event.text)
                          /\ rec.messages[k].content # <<>>
                          /\ rec.messages[k].sender \in {"Customer", "Agent"}
                          /\ rec.messages[k].sender = "Customer"
                                 <=> (customer_id # "" /\ event.author_id = customer_id)

\* ChatDataProcessor.clean_chat_data has written a record whose five events
\* gave two messages, both Agent although author and customer id are both ''
C23_Witness ==
    /\ pc = "pipeline_saved"
    /\ Len(Written) = 1
    /\ Len(RawOf(Written[1]).events) = 5
    /\ Len(Written[1].messages) = 2
    /\ CustomerOf(RawOf(Written[1])).id = ""
    /\ RawOf(Written[1]).events[2].author_id = ""
    /\ Written[1].messages[1].sender = "Agent"
    /\ Written[1].messages[1].content = S_hi

(***************************************************************************)
(* Properties of the session annotations                                   *)
(***************************************************************************)
\* the key contains 'phone', 'mobile' or 'telephone', whatever its case
ContainsPhoneWord(key) ==
    \E w \in {S_phone, S_mobile, S_telephone} : Contains(Lower(key), w)

\* the values of the annotations whose key contains a phone word, in order
RECURSIVE PhoneWordValues(_)
PhoneWordValues(fields) ==
    IF fields = <<>> THEN <<>>
    ELSE (IF ContainsPhoneWord(Head(fields).key) THEN <<Head(fields).value>> ELSE <<>>)
             \o PhoneWordValues(Tail(fields))

\* the email the annotations give a customer whose own email is empty
AnnotatedEmail(rec) ==
    LET customer == CustomerOf(RawOf(rec))
        offered == Filled(AnnotationValues(customer.session_fields, "email"))
    IN  (customer.email = <<>> /\ offered # <<>>) => rec.customer.email = offered[1]

\* C24 as claimed: an annotation whose key contains 'email' fills an empty
\* email, and an annotation whose key contains 'phone', 'mobile' or
\* 'telephone' and whose value is not empty fills an empty phone.
C24_Original ==
    pc \in {"pipeline_loop", "pipeline_saved"}
    => \A r \in 1..Len(cleaned_chats) :
           LET rec == cleaned_chats[r]
               customer == CustomerOf(RawOf(rec))
               offered == Filled(PhoneWordValues(customer.session_fields))
           IN  /\ AnnotatedEmail(rec)
               /\ (customer.phone = <<>> /\ offered # <<>>)
                      => rec.customer.phone = offered[1]

\* C24 (amended): an annotation whose key contains 'email' fills an empty
\* email; an empty phone is filled only by an annotation whose lowercased
\* key is exactly phone, phone_number, mobile, mobile_number or telephone,
\* and with no such annotation the phone is left to the form events.
C24_Amended ==
    pc \in {"pipeline_loop", "pipeline_saved"}
    => \A r \in 1..Len(cleaned_chats) :
           LET rec == cleaned_chats[r]
               customer == CustomerOf(RawOf(rec))
               offered == Filled(AnnotationValues(customer.session_fields, "phone"))
           IN  /\ AnnotatedEmail(rec)
               /\ customer.phone = <<>>
                      => rec.customer.phone =
                             IF offered # <<>> THEN offered[1]
                             ELSE FirstNonEmpty(FormValues(RawOf(rec).events, "phone"))

\* a written record whose customer had no phone and an annotation
\* 'Contact Phone' with a number, which the record does not carry
C24_Witness ==
    /\ pc = "pipeline_saved"
    /\ Len(Written) = 1
    /\ CustomerOf(data[1]).phone = <<>>
    /\ Filled(PhoneWordValues(CustomerOf(data[1]).session_fields)) # <<>>
    /\ AnnotationValues(CustomerOf(data[1]).session_fields, "phone") = <<>>
    /\ Written[1].customer.phone
           # Filled(PhoneWordValues(CustomerOf(data[1]).session_fields))[1]

(***************************************************************************)
(* Properties of the attributor on referrers that are no URL               *)
(***************************************************************************)
\* the referrer matches no platform and has no URL authority to take a
\* domain from: urlparse rejects it or finds an empty netloc
NoAuthority(ref) ==
    /\ ref # <<>>
    /\ Matches(ref) = {}
    /\ UrlParseRaises(ref) \/ Netloc(ref) = <<>>

\* C25: a non-empty referrer that matches no platform and has no URL
\* authority gets the base channel 'other' or 'direct', never 'website_'
\* with an empty domain.
C25_NoAuthorityFallsBack ==
    (pc = "labelled" /\ NoAuthority(traffic_referrer))
    => /\ \E base \in {S_other, S_direct} : label \in {base \o S__paid, base \o S__organic}
       /\ label \notin {S_website_ \o S__paid, S_website_ \o S__organic}

\* what does hold: only a referrer urlparse rejects gets 'other'; one with
\* an empty netloc is labelled 'website_' followed by nothing
C25_OnlyParseErrorFallsBack ==
    (pc = "labelled" /\ NoAuthority(traffic_referrer))
    => LET base == IF UrlParseRaises(traffic_referrer) THEN S_other ELSE S_website_
       IN  label \in {base \o S__paid, base \o S__organic}

(***************************************************************************)
(* Properties of run_analysis_workflow.main                                *)
(***************************************************************************)
\* main has left through sys.exit
WorkflowExited == pc = "workflow_exited"

\* C26: whenever main has terminated and no os.remove failed, the
\* intermediate cleaned file does not exist.  Violated: after a failed write
\* that left a file of size 0, main leaves with sys.exit(1) from the check
\* of the intermediate file, which removes nothing.
C26_IntermediateRemoved ==
    (WorkflowExited /\ ~remove_failed) => intermediate_file = "absent"

\* the messages of a fatal error the two steps print: the raw input could
\* not be read, run_analysis_process could not read the intermediate file,
\* the report could not be written
RawInputUnreadable == input_file.status # "ok"

IntermediateUnreadable == cleaned_input_file.status # "ok"

ReportWriteFailed ==
    /\ cleaned_input_file.status = "ok"
    /\ analysis_returned # <<>>
    /\ final_output_file_excel = <<>>

\* C27: main exits with status 0 only when neither step reported a fatal
\* error.  Violated: run_analysis_process reports an unreadable intermediate
\* file or a failed report write and returns normally, and main exits 0.
C27_ExitZeroOnlyWithoutFatalError ==
    exit_status = <<0>> =>
        ~(RawInputUnreadable \/ IntermediateUnreadable \/ ReportWriteFailed)

(***************************************************************************)
(* Properties of the loop of run_analysis_process                          *)
(***************************************************************************)
\* the number of chats the loop is to process: cleaned_chats[:limit]
ToProcess ==
    LET n == Len(cleaned_input_file.content)
    IN  IF limit = None THEN n ELSE IF limit < n THEN limit ELSE n

\* the loop has run to its end
LoopFinished == pc = "analysis_returned" /\ cleaned_input_file.status = "ok"

\* C28: after every iteration of the loop of run_analysis_process the two
\* counters add up to the number of chats processed so far, which is the
\* length of analyzed_results; when the loop has finished both equal
\* min(limit, number of cleaned chats), or the number of cleaned chats when
\* limit is None; the k-th record is that of the k-th cleaned chat, a chat
\* without messages included.
C28_OneRecordPerChat ==
    /\ successful_api_calls + skipped_api_calls = chat_index
    /\ Len(analyzed_results) = chat_index
    /\ \A k \in 1..Len(analyzed_results) :
           analyzed_results[k].chat_id = cleaned_input_file.content[k].chat_id
    /\ LoopFinished =>
           /\ chat_index = ToProcess
           /\ \A k \in 1..ToProcess :
                  cleaned_input_file.content[k].messages = <<>> =>
                      analyzed_results[k] = NoMessagesResult(cleaned_input_file.content[k])

\* a finished loop under a limit smaller than the number of cleaned chats,
\* whose first chat has no messages
C28_Witness ==
    /\ LoopFinished
    /\ limit # None
    /\ limit < Len(cleaned_input_file.content)
    /\ Len(analyzed_results) = limit
    /\ cleaned_input_file.content[1].messages = <<>>
    /\ skipped_api_calls = 1

(***************************************************************************)
(* Properties of the order of the steps of process_pipeline                *)
(***************************************************************************)
\* the filtered output file as the previous call of process_pipeline left it
PreviousSimplified ==
    IF completed_runs = <<>> THEN <<>>
    ELSE completed_runs[Len(completed_runs)].simplified_file

\* the cleaning step has returned a count of 0 retained records
CleaningReportedNone == returned # <<>> /\ returned[1][2] = 0

\* C29: convert_to_simplified_format is called only after clean_chat_data
\* has retained at least one record and written the cleaned file; when
\* cleaning reports 0 retained records the conversion is not called and the
\* filtered output file is as it was before the call of process_pipeline.
C29_ConvertOnlyAfterCleaning ==
    /\ convert_returned # <<>> =>
           /\ returned # <<>>
           /\ returned[1][2] >= 1
           /\ output_file = <<cleaned_chats>>
           /\ Len(cleaned_chats) = returned[1][2]
    /\ CleaningReportedNone =>
           /\ convert_returned = <<>>
           /\ simplified_file = PreviousSimplified
           /\ pc \notin {"pipeline_converted", "pipeline_convert_failed"}

\* a call that found the filtered output of an earlier call and could not
\* write its cleaned file: the earlier output is still there
C29_Witness ==
    /\ completed_runs # <<>>
    /\ completed_runs[1].pc = "pipeline_converted"
    /\ pc = "pipeline_write_failed"
    /\ CleaningReportedNone
    /\ simplified_file # <<>>

(***************************************************************************)
(* The attributor of test_corrected_logic.py against the production one    *)
(***************************************************************************)
\* the label the copy in test_corrected_logic.py returns for the arguments
\* of the call
TestLabel == test_analyze_traffic_source(traffic_referrer, traffic_start_url)

\* C30 as stated: the copy and the production function return the same
\* label for every pair (referrer, start_url).  Violated: the copy has no
\* branch for instagram, yandex, vertu.com or other sites, does not know
\* youtu.be, and tests youtube after facebook and bing.
C30_Original == pc = "labelled" => label = TestLabel

\* the referrers on which the two if/elif chains choose the same channel
SameChannel(ref) ==
    LET r == Lower(ref)
        youtube == Contains(r, S_youtube) \/ Contains(r, S_youtu_be)
        facebook == Contains(r, S_facebook) \/ Contains(r, S_fb_com)
    IN  \/ ref = <<>>
        \/ Contains(r, S_google)
        \/ youtube /\ Contains(r, S_youtube) /\ ~facebook /\ ~Contains(r, S_bing)
        \/ ~youtube /\ facebook
        \/ ~youtube /\ ~facebook /\ ~Contains(r, S_instagram) /\ Contains(r, S_bing)
        \/ /\ ~youtube /\ ~facebook
           /\ ~Contains(r, S_instagram) /\ ~Contains(r, S_bing)
           /\ ~Contains(r, S_yandex) /\ ~Contains(r, S_vertu_com)
           /\ UrlParseRaises(ref)

\* C30 amended: the two functions return the same label exactly for the
\* referrers of SameChannel: the empty referrer, one that names google, one
\* that names facebook or fb.com and neither youtube nor youtu.be, one that
\* names bing and none of youtube, youtu.be, facebook, fb.com, instagram,
\* one that names youtube and none of facebook, fb.com, bing, and one that
\* names no platform and makes urlparse raise; for every other referrer the
\* labels differ.
C30_Amended ==
    pc = "labelled" => (label = TestLabel <=> SameChannel(traffic_referrer))

\* a referrer that names both fb.com and instagram, labelled facebook by
\* both functions, with a paid start URL
C30_Witness ==
    /\ pc = "labelled"
    /\ Contains(Lower(traffic_referrer), S_fb_com)
    /\ Contains(Lower(traffic_referrer), S_instagram)
    /\ label = S_facebook \o S__paid
    /\ label = TestLabel

====
